---- MODULE Spec2Model ----
(***************************************************************************)
(* The confidential-tally ledger of fhevm-hardhat/contracts/                *)
(* ConfidentialVoting.sol as a state machine.  One action per external      *)
(* function of the contract; a call that reverts leaves the contract        *)
(* storage as it was and reports its revert reason in lastResult.           *)
(*                                                                         *)
(* A ciphertext handle is a record [src, owner, pt].  The contract never    *)
(* reads pt: it only passes handles to the FHE_ operators, which stand for  *)
(* the coprocessor calls of the FHE library (euint8 arithmetic, modulo      *)
(* 2^8).  pt is what a decryption of the handle would yield.               *)
(***************************************************************************)
EXTENDS Integers, Sequences, FiniteSets, TLC

\* ------------------------------------------------------------------ bounds

\* The model creates at most MaxProposals proposals (the contract has no cap).
MaxProposals == 2

\* The paired executions create at most MaxPairProposals proposals each.
MaxPairProposals == 1

\* The ledger a client session votes on holds at most MaxClientProposals
\* proposals.
MaxClientProposals == 1

\* The ledger the Web3Provider talks to holds at most MaxProviderProposals
\* proposals.
MaxProviderProposals == 1

\* Voters of the election that makes an accumulator wrap: more than 2^8.
MaxWrapVoters == 257

\* At most MaxFheCalls calls on the FHEService are in progress at once.
MaxFheCalls == 2

\* A session of the FHEService starts at most MaxCreations instance creations.
MaxCreations == 3

\* At most MaxSdkCalls calls of loadZamaSDKFromCDN are in progress at once.
MaxSdkCalls == 3

\* uint8 / euint8 are 8 bits wide.
Uint8Modulus == 256

\* Caller identities (msg.sender values).
Addresses == {"a1", "a2"}

NoAddress == "0x0"

\* Proposal ids a caller may pass: every valid id and, always, an invalid one.
ProposalIds == 0..MaxProposals

\* Proposal descriptions a caller may pass.
Descriptions == {"Adopt proposal X"}

\* Plaintexts a client may encrypt into a ballot: Yes, No and an
\* out-of-domain value.
Plaintexts == {0, 1, 2}

\* enum VoteOption { Yes, No }
VoteOption_Yes == 0
VoteOption_No == 1

VARIABLES
    proposals,       \* Proposal[] public proposals
    encryptedVotes,  \* mapping(uint256 => mapping(address => euint8))
    hasVoted,        \* mapping(uint256 => mapping(address => bool))
    acl,             \* persistent decryption permissions granted by FHE.allow
    lastResult,      \* status and revert reason of the last call
    createdLog,      \* history: (id, description) reported by each successful createProposal
    cast,            \* history: plaintexts of the ballots accepted, per (id, voter), in order
    publishedOk,     \* history: number of successful makeVoteCountsPublic calls, per id
    twin,            \* a second execution of the contract, set aside while the first runs
    flows,           \* the castVote calls in progress in a client session (useVoting)
    web3,            \* the wallet and the state of the Web3Provider (web3-context)
    site,            \* the frontend's contract address files and the backup file
    fhe,             \* the FHEService singleton and the calls in progress on it (lib/fheService.ts)
    sdk              \* the module state of the SDK loader, the page and its timers

storage == <<proposals, encryptedVotes, hasVoted, acl>>
history == <<createdLog, cast, publishedOk>>

\* The contract, the result of its last call and its history.
ledger == <<storage, lastResult, history>>

\* What lies outside the contract and its history.
outside == <<twin, flows, web3, site, fhe, sdk>>

vars == <<proposals, encryptedVotes, hasVoted, acl, lastResult, createdLog, cast, publishedOk,
          twin, flows, web3, site, fhe, sdk>>

\* ------------------------------------------------------- FHE capability

\* The value of an euint8 storage slot that was never written.
UninitializedHandle == [src |-> "uninit", owner |-> NoAddress, pt |-> 0]

\* FHE.asEuint8(x): trivial encryption of a plaintext.
FHE_asEuint8(x) == [src |-> "trivial", owner |-> NoAddress, pt |-> x % Uint8Modulus]

\* FHE.eq(a, b): encrypted boolean, 1 when the plaintexts are equal.
FHE_eq(a, b) == [src |-> "op", owner |-> NoAddress, pt |-> IF a.pt = b.pt THEN 1 ELSE 0]

\* FHE.select(c, x, y): x when c encrypts true, else y.
FHE_select(c, x, y) == [src |-> "op", owner |-> NoAddress, pt |-> IF c.pt = 1 THEN x.pt ELSE y.pt]

\* Mutant of FHE_add: the sum does not wrap.
FHE_add_NoWrap(a, b) == [src |-> "op", owner |-> NoAddress, pt |-> a.pt + b.pt]

\* FHE.add(a, b) on euint8: wraps modulo 2^8.
FHE_add(a, b) == [src |-> "op", owner |-> NoAddress, pt |-> (a.pt + b.pt) % Uint8Modulus]

\* An encrypted input a client builds with createEncryptedInput(contract, user)
\* and add8(value): bound to the user it was created for.
ExternalInput(user, value) == [src |-> "input", owner |-> user, pt |-> value % Uint8Modulus]

\* FHE.fromExternal(encryptedVote, proof) verifies the proof for the calling
\* user and reverts when it does not hold.
FHE_proofVerifies(encryptedVote, proof, sender) ==
    proof = "valid" /\ encryptedVote.owner = sender

\* FHE.fromExternal(encryptedVote, proof): the imported handle.
FHE_fromExternal(encryptedVote, proof) == encryptedVote

\* --------------------------------------------------------- call results

NoError == ""

NoEvent == <<>>

Reverted(reason) == [status |-> "reverted", reason |-> reason, events |-> <<>>, ret |-> <<>>]

Succeeded(events, ret) == [status |-> "ok", reason |-> NoError, events |-> events, ret |-> ret]

\* What lastResult keeps of a call's result.
Outcome(result) == [status |-> result.status, reason |-> result.reason]

Event(name, proposalId, description, voter, yesCount, noCount) ==
    [name |-> name, proposalId |-> proposalId, description |-> description,
     voter |-> voter, yesCount |-> yesCount, noCount |-> noCount]

\* event ProposalCreated(uint256 indexed proposalId, string description)
ProposalCreated(proposalId, description) ==
    Event("ProposalCreated", proposalId, description, NoAddress, 0, 0)

\* event Voted(uint256 indexed proposalId, address voter)
Voted(proposalId, voter) == Event("Voted", proposalId, "", voter, 0, 0)

\* event VoteCountsMadePublic(uint256 indexed proposalId, uint8 yesCount, uint8 noCount)
VoteCountsMadePublic(proposalId, yesCount, noCount) ==
    Event("VoteCountsMadePublic", proposalId, "", NoAddress, yesCount, noCount)

\* ------------------------------------------------- state outside the contract

\* The contract and its history right after deployment.
FreshLedger ==
    [proposals |-> <<>>,
     encryptedVotes |-> [p \in ProposalIds |-> [a \in Addresses |-> UninitializedHandle]],
     hasVoted |-> [p \in ProposalIds |-> [a \in Addresses |-> FALSE]],
     acl |-> {},
     lastResult |-> Outcome(Succeeded(NoEvent, <<>>)),
     createdLog |-> <<>>,
     cast |-> [p \in ProposalIds |-> [a \in Addresses |-> <<>>]],
     publishedOk |-> [p \in ProposalIds |-> 0]]

\* A call of the contract without the plaintext of its ballot: the function,
\* msg.sender, and the arguments (owner and proof describe the attached
\* ballot of a vote).
Call(op, sender, proposalId, owner, proof, fheUp, description) ==
    [op |-> op, sender |-> sender, proposalId |-> proposalId, owner |-> owner,
     proof |-> proof, fheUp |-> fheUp, description |-> description]

NoCall == Call("none", NoAddress, 0, NoAddress, "", TRUE, "")

\* What a caller and the public see of a call, in plaintext.
Seen(status, reason, events, ret) ==
    [status |-> status, reason |-> reason, events |-> events, ret |-> ret]

NothingSeen == Seen("", NoError, NoEvent, <<>>)

\* Two executions of the contract take the same calls in turn: the leading
\* one takes a call, is set aside in store, and the other one follows with the
\* same call.  seen holds what the last call showed in either execution.
TwinInit ==
    [phase |-> "lead", call |-> NoCall, seen |-> <<NothingSeen, NothingSeen>>,
     store |-> FreshLedger]

\* useVoting: no castVote call in progress.
IdleFlow == [pc |-> "idle", proposalId |-> 0, voteValue |-> 0, proof |-> "", error |-> ""]

\* The calls of castVote that may be in progress at once.
FlowIds == {"f1", "f2"}

\* useState<string | null>(null) for userAddress; no castVote running.
FlowsInit == [userAddress |-> NoAddress, calls |-> [f \in FlowIds |-> IdleFlow]]

\* const SEPOLIA_CHAIN_ID = 11155111
SEPOLIA_CHAIN_ID == 11155111

\* useState<number | null>(null) for chainId: no chain known.
NoChain == 0

\* The chains the wallet may be on: Sepolia and another one.
WalletChains == {SEPOLIA_CHAIN_ID, 1}

\* A transaction the provider's contract instance submits through the wallet:
\* the function, the signer, the arguments, the plaintext its ballot encodes,
\* the chain the wallet was on and whether the contract on Sepolia then
\* reported that the signer had voted on the proposal.
Transaction(op, from, proposalId, voteValue, plaintext, chainId, alreadyVoted) ==
    [op |-> op, from |-> from, proposalId |-> proposalId, voteValue |-> voteValue,
     plaintext |-> plaintext, chainId |-> chainId, alreadyVoted |-> alreadyVoted]

NoTransaction == Transaction("none", NoAddress, 0, FALSE, 0, NoChain, FALSE)

\* No vote(proposalId, voteValue) call of the provider is waiting for fheEncrypt.
NotVoting == [pc |-> "idle", from |-> NoAddress, proposalId |-> 0, voteValue |-> FALSE]

\* The wallet is on Sepolia; no provider is mounted; once one is, its state is
\* account = null, isConnected = false, chainId = null, contract = null.
Web3Init ==
    [provider |-> "none", walletChain |-> SEPOLIA_CHAIN_ID, account |-> NoAddress,
     isConnected |-> FALSE, chainId |-> NoChain, contract |-> FALSE,
     voting |-> NotVoting, lastOp |-> "none", lastTx |-> NoTransaction]

\* No NEXT_PUBLIC_CONTRACT_ADDRESS line in voting-app/.env; no
\* contract-address.backup file.
NoLine == "no line"

NoFile == "no file"

\* The fallback address of lib/contracts.ts as checked in.
CheckedInAddress == "0xFFF82723DbF6e060FE6663D6194cCB5F77471791"

\* The configured addresses as a pair.
Config(env, fallback) == [env |-> env, fallback |-> fallback]

\* A fresh checkout: no .env, the checked-in fallback address, no backup file,
\* no script run yet.
SiteInit ==
    [env |-> NoLine, fallback |-> CheckedInAddress, backup |-> NoFile,
     lastRun |-> "none", exit |-> 0, replaced |-> FALSE,
     before |-> Config(NoLine, CheckedInAddress)]

\* FHEService calls in progress at once, createZamaInstance calls of one
\* session, and loadZamaSDKFromCDN calls in progress at once.
FheCalls == 1..MaxFheCalls
SdkCalls == 1..MaxSdkCalls

\* An FHEConfig: configChanged compares account, chainId and rpcUrl.
FHEConfig(account, chainId, rpcUrl) ==
    [account |-> account, chainId |-> chainId, rpcUrl |-> rpcUrl]

\* currentConfig: FHEConfig | null = null.
NoConfig == FHEConfig(NoAddress, NoChain, "")

\* The configs a session passes: two accounts on Sepolia.
FheConfigs == {FHEConfig(a, SEPOLIA_CHAIN_ID, "rpc") : a \in Addresses}

\* The encrypted values a session decrypts.
FheHandles == {"h"}

\* An instance is named by the number of the createZamaInstance call that
\* made it; instance: ZamaInstance | null = null, and likewise initPromise.
NoInstance == 0
NoPromise == 0

\* decryptCache.get(h) of a value never cached.
NoEntry == [value |-> <<>>, fresh |-> FALSE]

\* What instance.userDecrypt(h) resolves to: the plaintext of h as decrypted
\* by the given instance, in a decrypt call that was passed the given config.
Decrypted(h, instance, config) == <<[handle |-> h, instance |-> instance, config |-> config]>>

\* A call on the service: the method, its arguments, where it stands, the
\* promise it awaits, the instance getInstance gave it, whether the promise
\* it awaits was settled when it began to wait, and what it returned.
FheCall(op, config, handle, pc, promise, instance, late, status, value) ==
    [op |-> op, config |-> config, handle |-> handle, pc |-> pc, promise |-> promise,
     instance |-> instance, late |-> late, status |-> status, value |-> value]

IdleFheCall == FheCall("none", NoConfig, "", "idle", NoPromise, NoInstance, FALSE, "none", <<>>)

FheInit ==
    [instance |-> NoInstance,
     currentConfig |-> NoConfig,
     initPromise |-> NoPromise,
     decryptCache |-> [h \in FheHandles |-> NoEntry],
     created |-> <<>>,
     calls |-> [c \in FheCalls |-> IdleFheCall]]

\* sdkLoaded and sdkLoadPromise of the module, whether window.initSDK and
\* window.createInstance are there, the script element, the timer of
\* script.onload, the dynamic import, the load timeout, the number of load
\* promises made, of script elements appended and of imports attempted, and
\* the callers.
SdkInit ==
    [sdkLoaded |-> FALSE,
     sdkLoadPromise |-> "null",
     window |-> FALSE,
     script |-> "none",
     onloadTimer |-> "none",
     import |-> "none",
     loadTimeout |-> "none",
     promises |-> 0,
     scripts |-> 0,
     imports |-> 0,
     callers |-> [c \in SdkCalls |-> "idle"]]

\* ---------------------------------------------------------------- Init

Init ==
    /\ proposals = <<>>
    /\ encryptedVotes = [p \in ProposalIds |-> [a \in Addresses |-> UninitializedHandle]]
    /\ hasVoted = [p \in ProposalIds |-> [a \in Addresses |-> FALSE]]
    /\ acl = {}
    /\ lastResult = Outcome(Succeeded(NoEvent, <<>>))
    /\ createdLog = <<>>
    /\ cast = [p \in ProposalIds |-> [a \in Addresses |-> <<>>]]
    /\ publishedOk = [p \in ProposalIds |-> 0]
    /\ twin = TwinInit
    /\ flows = FlowsInit
    /\ web3 = Web3Init
    /\ site = SiteInit
    /\ fhe = FheInit
    /\ sdk = SdkInit

\* ------------------------------------------------------------- helpers

\* Mutant of ValidProposalId: the range check is off by one.
ValidProposalId_OffByOne(proposalId) == proposalId <= Len(proposals)

\* require(proposalId < proposals.length, "Invalid proposal")
ValidProposalId(proposalId) == proposalId < Len(proposals)

\* proposals[proposalId]: a checked array access (ids are 0-based).
InBounds(proposalId) == proposalId + 1 \in DOMAIN proposals

ProposalAt(proposalId) == proposals[proposalId + 1]

\* Mutant of NewProposal: the new proposal starts public.
NewProposal_StartsPublic(description) ==
    [description |-> description,
     yesCount |-> FHE_asEuint8(0),
     noCount |-> FHE_asEuint8(0),
     isPublic |-> TRUE,
     publicYesCount |-> 0,
     publicNoCount |-> 0]

\* The proposal createProposal pushes.
NewProposal(description) ==
    [description |-> description,
     yesCount |-> FHE_asEuint8(0),
     noCount |-> FHE_asEuint8(0),
     isPublic |-> FALSE,
     publicYesCount |-> 0,
     publicNoCount |-> 0]

\* Mutant of NewProposalId: the length is reported instead of the last index.
NewProposalId_Length(lengthAfterPush) == lengthAfterPush

\* The id createProposal reports: proposals.length - 1, after the push.
NewProposalId(lengthAfterPush) == lengthAfterPush - 1

\* Mutant of YesContribution: the ballot is compared with No.
YesContribution_ComparesNo(v) ==
    FHE_select(FHE_eq(v, FHE_asEuint8(VoteOption_No)), FHE_asEuint8(1), FHE_asEuint8(0))

\* FHE.select(FHE.eq(v, yes), one, FHE.asEuint8(0))
YesContribution(v) ==
    FHE_select(FHE_eq(v, FHE_asEuint8(VoteOption_Yes)), FHE_asEuint8(1), FHE_asEuint8(0))

\* Mutant of NoContribution: No is inferred as "not Yes".
NoContribution_NotYes(v) ==
    FHE_select(FHE_eq(v, FHE_asEuint8(VoteOption_Yes)), FHE_asEuint8(0), FHE_asEuint8(1))

\* FHE.select(FHE.eq(v, no), one, FHE.asEuint8(0))
NoContribution(v) ==
    FHE_select(FHE_eq(v, FHE_asEuint8(VoteOption_No)), FHE_asEuint8(1), FHE_asEuint8(0))

\* Mutant of TalliedProposal: vote also counts into the public counters.
TalliedProposal_CountsInPublic(p, v) ==
    [p EXCEPT !.yesCount = FHE_add(p.yesCount, YesContribution(v)),
              !.noCount = FHE_add(p.noCount, NoContribution(v)),
              !.publicYesCount = (p.publicYesCount + YesContribution(v).pt) % Uint8Modulus,
              !.publicNoCount = (p.publicNoCount + NoContribution(v).pt) % Uint8Modulus]

\* The proposal after vote has added the ballot v to both accumulators.
TalliedProposal(p, v) ==
    [p EXCEPT !.yesCount = FHE_add(p.yesCount, YesContribution(v)),
              !.noCount = FHE_add(p.noCount, NoContribution(v))]

\* Mutant of PublishedProposal: publication resets the accumulators.
PublishedProposal_ResetsCounts(p) ==
    [p EXCEPT !.isPublic = TRUE,
              !.yesCount = FHE_asEuint8(0),
              !.noCount = FHE_asEuint8(0)]

\* The proposal after makeVoteCountsPublic: only the flag is set.
PublishedProposal(p) == [p EXCEPT !.isPublic = TRUE]

\* The counts makeVoteCountsPublic reports in VoteCountsMadePublic.
PublishedEvent(proposalId, p) == VoteCountsMadePublic(proposalId, 0, 0)

\* Mutant of voteRevertReason: the ballot is decrypted and refused unless it
\* is Yes or No.
voteRevertReason_RejectsOutOfDomain(sender, proposalId, encryptedVote, proof, fheUp) ==
    IF ~ValidProposalId(proposalId) THEN "Invalid proposal"
    ELSE IF ~InBounds(proposalId) THEN "Panic(0x32)"
    ELSE IF hasVoted[proposalId][sender] THEN "Already voted"
    ELSE IF ~fheUp THEN "CapabilityUnavailable"
    ELSE IF ~FHE_proofVerifies(encryptedVote, proof, sender) THEN "ProofVerificationFailed"
    ELSE IF encryptedVote.pt \notin {VoteOption_Yes, VoteOption_No} THEN "Invalid vote"
    ELSE NoError

\* Mutant of voteRevertReason: a voter may vote on one proposal only.
voteRevertReason_OneVotePerVoter(sender, proposalId, encryptedVote, proof, fheUp) ==
    IF ~ValidProposalId(proposalId) THEN "Invalid proposal"
    ELSE IF ~InBounds(proposalId) THEN "Panic(0x32)"
    ELSE IF \E q \in ProposalIds : hasVoted[q][sender] THEN "Already voted"
    ELSE IF ~fheUp THEN "CapabilityUnavailable"
    ELSE IF ~FHE_proofVerifies(encryptedVote, proof, sender) THEN "ProofVerificationFailed"
    ELSE NoError

\* Mutant of voteRevertReason: the proof is verified before the "Already
\* voted" check.
voteRevertReason_ProofFirst(sender, proposalId, encryptedVote, proof, fheUp) ==
    IF ~ValidProposalId(proposalId) THEN "Invalid proposal"
    ELSE IF ~InBounds(proposalId) THEN "Panic(0x32)"
    ELSE IF ~fheUp THEN "CapabilityUnavailable"
    ELSE IF ~FHE_proofVerifies(encryptedVote, proof, sender) THEN "ProofVerificationFailed"
    ELSE IF hasVoted[proposalId][sender] THEN "Already voted"
    ELSE NoError

\* Mutant of voteRevertReason: the "Already voted" check is missing.
voteRevertReason_NoReplayCheck(sender, proposalId, encryptedVote, proof, fheUp) ==
    IF ~ValidProposalId(proposalId) THEN "Invalid proposal"
    ELSE IF ~InBounds(proposalId) THEN "Panic(0x32)"
    ELSE IF ~fheUp THEN "CapabilityUnavailable"
    ELSE IF ~FHE_proofVerifies(encryptedVote, proof, sender) THEN "ProofVerificationFailed"
    ELSE NoError

\* Mutant of voteRevertReason: voting closes once the counts are public.
voteRevertReason_ClosedAfterPublic(sender, proposalId, encryptedVote, proof, fheUp) ==
    IF ~ValidProposalId(proposalId) THEN "Invalid proposal"
    ELSE IF ~InBounds(proposalId) THEN "Panic(0x32)"
    ELSE IF ProposalAt(proposalId).isPublic THEN "Voting closed"
    ELSE IF hasVoted[proposalId][sender] THEN "Already voted"
    ELSE IF ~fheUp THEN "CapabilityUnavailable"
    ELSE IF ~FHE_proofVerifies(encryptedVote, proof, sender) THEN "ProofVerificationFailed"
    ELSE NoError

\* The checks of vote in the order of the code; NoError when all pass.
voteRevertReason(sender, proposalId, encryptedVote, proof, fheUp) ==
    IF ~ValidProposalId(proposalId) THEN "Invalid proposal"
    ELSE IF ~InBounds(proposalId) THEN "Panic(0x32)"
    ELSE IF hasVoted[proposalId][sender] THEN "Already voted"
    ELSE IF ~fheUp THEN "CapabilityUnavailable"
    ELSE IF ~FHE_proofVerifies(encryptedVote, proof, sender) THEN "ProofVerificationFailed"
    ELSE NoError

\* Mutant of voteRecordsBallot: a repeated vote overwrites the stored ballot
\* before it is refused.
voteRecordsBallot_OnReplay(reason) == reason \in {NoError, "Already voted"}

\* Mutant of voteRecordsBallot: the ballot is recorded before the proof is
\* verified and stays recorded when the verification fails.
voteRecordsBallot_BeforeProof(reason) ==
    reason \in {NoError, "ProofVerificationFailed"}

\* vote writes encryptedVotes and hasVoted only after every check has passed.
voteRecordsBallot(reason) == reason = NoError

\* vote updates the accumulators only after every check has passed.
voteTallies(reason) == reason = NoError

\* Mutant of publishRevertReason: only a caller who has voted on the proposal
\* may publish.
publishRevertReason_VotersOnly(sender, proposalId) ==
    IF ~ValidProposalId(proposalId) THEN "Invalid proposal"
    ELSE IF ~InBounds(proposalId) THEN "Panic(0x32)"
    ELSE IF ProposalAt(proposalId).isPublic THEN "Vote counts already public"
    ELSE IF ~hasVoted[proposalId][sender] THEN "Not authorized"
    ELSE NoError

\* Mutant of publishRevertReason: the "already public" check is missing.
publishRevertReason_NoPublicCheck(sender, proposalId) ==
    IF ~ValidProposalId(proposalId) THEN "Invalid proposal"
    ELSE IF ~InBounds(proposalId) THEN "Panic(0x32)"
    ELSE NoError

\* The checks of makeVoteCountsPublic in the order of the code.
publishRevertReason(sender, proposalId) ==
    IF ~ValidProposalId(proposalId) THEN "Invalid proposal"
    ELSE IF ~InBounds(proposalId) THEN "Panic(0x32)"
    ELSE IF ProposalAt(proposalId).isPublic THEN "Vote counts already public"
    ELSE NoError

\* The checks of getMyVote in the order of the code.
getMyVoteRevertReason(sender, proposalId, fheUp) ==
    IF ~ValidProposalId(proposalId) THEN "Invalid proposal"
    ELSE IF ~hasVoted[proposalId][sender] THEN "You haven't voted"
    ELSE IF ~fheUp THEN "CapabilityUnavailable"
    ELSE NoError

\* Mutant of MyVote: the ballot of some voter of the proposal is read, not the
\* caller's.
MyVote_AnyVoter(sender, proposalId) ==
    encryptedVotes[proposalId][CHOOSE a \in Addresses : hasVoted[proposalId][a]]

\* The ballot getMyVote reads for its caller.
MyVote(sender, proposalId) == encryptedVotes[proposalId][sender]

\* FHE.allow(handle, msg.sender): the permission getMyVote grants.
MyVoteGrant(sender, proposalId) == <<MyVote(sender, proposalId), sender>>

\* The checks of a view that takes a proposal id and reads proposals[id].
arrayViewRevertReason(proposalId) ==
    IF ~ValidProposalId(proposalId) THEN "Invalid proposal"
    ELSE IF ~InBounds(proposalId) THEN "Panic(0x32)"
    ELSE NoError

\* The check of hasUserVoted, which reads only the hasVoted mapping.
hasUserVotedRevertReason(proposalId) ==
    IF ~ValidProposalId(proposalId) THEN "Invalid proposal" ELSE NoError

\* ------------------------------------------------------- call results

\* What createProposal reports: ProposalCreated(proposals.length - 1, description).
createProposalResult(sender, description, fheUp) ==
    IF ~fheUp THEN Reverted("CapabilityUnavailable")
    ELSE Succeeded(<<ProposalCreated(NewProposalId(Len(proposals) + 1), description)>>, <<>>)

\* What vote reports: its revert reason, or the Voted event.
voteResult(sender, proposalId, encryptedVote, proof, fheUp) ==
    LET reason == voteRevertReason(sender, proposalId, encryptedVote, proof, fheUp)
    IN  IF reason = NoError
        THEN Succeeded(<<Voted(proposalId, sender)>>, <<>>)
        ELSE Reverted(reason)

\* Mutant of getEncryptedVoteCountResult: the handles are withheld once the
\* counts are public.
getEncryptedVoteCountResult_HiddenAfterPublic(proposalId) ==
    LET reason == arrayViewRevertReason(proposalId)
    IN  IF reason # NoError THEN Reverted(reason)
        ELSE IF ProposalAt(proposalId).isPublic THEN Reverted("Vote counts already public")
        ELSE Succeeded(NoEvent, <<ProposalAt(proposalId).yesCount,
                                  ProposalAt(proposalId).noCount>>)

\* What getEncryptedVoteCount returns: (p.yesCount, p.noCount).
getEncryptedVoteCountResult(proposalId) ==
    LET reason == arrayViewRevertReason(proposalId)
    IN  IF reason = NoError
        THEN Succeeded(NoEvent, <<ProposalAt(proposalId).yesCount,
                                  ProposalAt(proposalId).noCount>>)
        ELSE Reverted(reason)

\* What getMyVote returns: encryptedVotes[proposalId][msg.sender].
getMyVoteResult(sender, proposalId, fheUp) ==
    LET reason == getMyVoteRevertReason(sender, proposalId, fheUp)
    IN  IF reason = NoError
        THEN Succeeded(NoEvent, <<MyVote(sender, proposalId)>>)
        ELSE Reverted(reason)

\* What proposalCount returns: proposals.length.
proposalCountResult == Succeeded(NoEvent, <<Len(proposals)>>)

\* Mutant of hasUserVotedResult: the flag of the proposal is read for any
\* voter, not for the one asked about.
hasUserVotedResult_AnyVoter(proposalId, voter) ==
    LET reason == hasUserVotedRevertReason(proposalId)
    IN  IF reason = NoError
        THEN Succeeded(NoEvent, <<\E a \in Addresses : hasVoted[proposalId][a]>>)
        ELSE Reverted(reason)

\* What hasUserVoted returns: hasVoted[proposalId][voter].
hasUserVotedResult(proposalId, voter) ==
    LET reason == hasUserVotedRevertReason(proposalId)
    IN  IF reason = NoError
        THEN Succeeded(NoEvent, <<hasVoted[proposalId][voter]>>)
        ELSE Reverted(reason)

\* What makeVoteCountsPublic reports: its revert reason, or VoteCountsMadePublic.
makeVoteCountsPublicResult(sender, proposalId) ==
    LET reason == publishRevertReason(sender, proposalId)
    IN  IF reason = NoError
        THEN Succeeded(<<PublishedEvent(proposalId, ProposalAt(proposalId))>>, <<>>)
        ELSE Reverted(reason)

\* What getPublicVoteCounts returns: (p.publicYesCount, p.publicNoCount, p.isPublic).
getPublicVoteCountsResult(proposalId) ==
    LET reason == arrayViewRevertReason(proposalId)
    IN  IF reason = NoError
        THEN Succeeded(NoEvent, <<ProposalAt(proposalId).publicYesCount,
                                  ProposalAt(proposalId).publicNoCount,
                                  ProposalAt(proposalId).isPublic>>)
        ELSE Reverted(reason)

\* What the getter of the public array returns: the non-mapping fields of
\* proposals[index]; an index out of range reverts without a reason string.
proposalsGetterResult(index) ==
    IF ~InBounds(index) THEN Reverted("out of bounds")
    ELSE Succeeded(NoEvent, <<ProposalAt(index).description,
                              ProposalAt(index).yesCount,
                              ProposalAt(index).noCount,
                              ProposalAt(index).isPublic,
                              ProposalAt(index).publicYesCount,
                              ProposalAt(index).publicNoCount>>)

\* ------------------------------------------------------------- actions

createProposal(sender, description, fheUp) ==
    LET result == createProposalResult(sender, description, fheUp)
    IN  /\ Len(proposals) < MaxProposals
        /\ proposals' =
               IF result.status = "ok"
               THEN Append(proposals, NewProposal(description))
               ELSE proposals
        /\ createdLog' =
               IF result.status = "ok"
               THEN Append(createdLog, [id |-> result.events[1].proposalId,
                                        description |-> description])
               ELSE createdLog
        /\ lastResult' = Outcome(result)
        /\ UNCHANGED <<encryptedVotes, hasVoted, acl, cast, publishedOk>>

vote(sender, proposalId, encryptedVote, proof, fheUp) ==
    LET reason == voteRevertReason(sender, proposalId, encryptedVote, proof, fheUp)
        v == FHE_fromExternal(encryptedVote, proof)
    IN  /\ encryptedVotes' =
               IF voteRecordsBallot(reason)
               THEN [encryptedVotes EXCEPT ![proposalId][sender] = v]
               ELSE encryptedVotes
        /\ hasVoted' =
               IF voteRecordsBallot(reason)
               THEN [hasVoted EXCEPT ![proposalId][sender] = TRUE]
               ELSE hasVoted
        /\ proposals' =
               IF voteTallies(reason) /\ InBounds(proposalId)
               THEN [proposals EXCEPT
                         ![proposalId + 1] = TalliedProposal(ProposalAt(proposalId), v)]
               ELSE proposals
        /\ cast' =
               IF reason = NoError
               THEN [cast EXCEPT ![proposalId][sender] = Append(@, encryptedVote.pt)]
               ELSE cast
        /\ lastResult' = Outcome(voteResult(sender, proposalId, encryptedVote, proof, fheUp))
        /\ UNCHANGED <<acl, createdLog, publishedOk>>

proposalsGetter(index) ==
    /\ lastResult' = Outcome(proposalsGetterResult(index))
    /\ UNCHANGED <<storage, history>>

getEncryptedVoteCount(proposalId) ==
    /\ lastResult' = Outcome(getEncryptedVoteCountResult(proposalId))
    /\ UNCHANGED <<storage, history>>

\* Mutant of getMyVote: reading the ballot consumes it.
getMyVote_ConsumesBallot(sender, proposalId, fheUp) ==
    LET result == getMyVoteResult(sender, proposalId, fheUp)
    IN  /\ acl' = IF result.status = "ok"
                  THEN acl \cup {MyVoteGrant(sender, proposalId)}
                  ELSE acl
        /\ hasVoted' = IF result.status = "ok"
                       THEN [hasVoted EXCEPT ![proposalId][sender] = FALSE]
                       ELSE hasVoted
        /\ lastResult' = Outcome(result)
        /\ UNCHANGED <<proposals, encryptedVotes, history>>

getMyVote(sender, proposalId, fheUp) ==
    LET result == getMyVoteResult(sender, proposalId, fheUp)
    IN  /\ acl' = IF result.status = "ok"
                  THEN acl \cup {MyVoteGrant(sender, proposalId)}
                  ELSE acl
        /\ lastResult' = Outcome(result)
        /\ UNCHANGED <<proposals, encryptedVotes, hasVoted, history>>

proposalCount ==
    /\ lastResult' = Outcome(proposalCountResult)
    /\ UNCHANGED <<storage, history>>

hasUserVoted(proposalId, voter) ==
    /\ lastResult' = Outcome(hasUserVotedResult(proposalId, voter))
    /\ UNCHANGED <<storage, history>>

\* Mutant of makeVoteCountsPublic: publishing also allows the caller to
\* decrypt both counters.
makeVoteCountsPublic_AllowsCaller(sender, proposalId) ==
    LET result == makeVoteCountsPublicResult(sender, proposalId)
    IN  /\ proposals' =
               IF result.status = "ok"
               THEN [proposals EXCEPT
                         ![proposalId + 1] = PublishedProposal(ProposalAt(proposalId))]
               ELSE proposals
        /\ publishedOk' =
               IF result.status = "ok"
               THEN [publishedOk EXCEPT ![proposalId] = @ + 1]
               ELSE publishedOk
        /\ acl' =
               IF result.status = "ok"
               THEN acl \cup {<<ProposalAt(proposalId).yesCount, sender>>,
                              <<ProposalAt(proposalId).noCount, sender>>}
               ELSE acl
        /\ lastResult' = Outcome(result)
        /\ UNCHANGED <<encryptedVotes, hasVoted, createdLog, cast>>

makeVoteCountsPublic(sender, proposalId) ==
    LET result == makeVoteCountsPublicResult(sender, proposalId)
    IN  /\ proposals' =
               IF result.status = "ok"
               THEN [proposals EXCEPT
                         ![proposalId + 1] = PublishedProposal(ProposalAt(proposalId))]
               ELSE proposals
        /\ publishedOk' =
               IF result.status = "ok"
               THEN [publishedOk EXCEPT ![proposalId] = @ + 1]
               ELSE publishedOk
        /\ lastResult' = Outcome(result)
        /\ UNCHANGED <<encryptedVotes, hasVoted, acl, createdLog, cast>>

getPublicVoteCounts(proposalId) ==
    /\ lastResult' = Outcome(getPublicVoteCountsResult(proposalId))
    /\ UNCHANGED <<storage, history>>

\* The ballots a caller may attach to a vote: an input of each plaintext
\* created for the caller with its proof, one with a forged proof, one created
\* for another user, and one submitted while the FHE capability is down.
VoteAttempts(sender) ==
    {[encryptedVote |-> ExternalInput(sender, x), proof |-> "valid", fheUp |-> TRUE] :
        x \in Plaintexts}
    \cup {[encryptedVote |-> ExternalInput(sender, VoteOption_Yes), proof |-> "forged",
           fheUp |-> TRUE]}
    \cup {[encryptedVote |-> ExternalInput(u, VoteOption_Yes), proof |-> "valid",
           fheUp |-> TRUE] : u \in Addresses \ {sender}}
    \cup {[encryptedVote |-> ExternalInput(sender, VoteOption_Yes), proof |-> "valid",
           fheUp |-> FALSE]}

Next ==
    \/ \E s \in Addresses, d \in Descriptions, up \in BOOLEAN :
          createProposal(s, d, up) /\ UNCHANGED outside
    \/ \E s \in Addresses, p \in ProposalIds : \E a \in VoteAttempts(s) :
          vote(s, p, a.encryptedVote, a.proof, a.fheUp) /\ UNCHANGED outside
    \/ \E p \in ProposalIds : proposalsGetter(p) /\ UNCHANGED outside
    \/ \E p \in ProposalIds : getEncryptedVoteCount(p) /\ UNCHANGED outside
    \/ \E s \in Addresses, p \in ProposalIds, up \in BOOLEAN :
          getMyVote(s, p, up) /\ UNCHANGED outside
    \/ proposalCount /\ UNCHANGED outside
    \/ \E p \in ProposalIds, a \in Addresses : hasUserVoted(p, a) /\ UNCHANGED outside
    \/ \E s \in Addresses, p \in ProposalIds :
          makeVoteCountsPublic(s, p) /\ UNCHANGED outside
    \/ \E p \in ProposalIds : getPublicVoteCounts(p) /\ UNCHANGED outside

Spec == Init /\ [][Next]_vars

\* --------------------------------------- two executions taking the same calls

\* The contract and its history as they are now.
Ledger ==
    [proposals |-> proposals,
     encryptedVotes |-> encryptedVotes,
     hasVoted |-> hasVoted,
     acl |-> acl,
     lastResult |-> lastResult,
     createdLog |-> createdLog,
     cast |-> cast,
     publishedOk |-> publishedOk]

\* Proposal ids passed in the paired executions: the valid ones and an invalid one.
PairIds == 0..MaxPairProposals

\* The calls the paired executions take.
PairCalls ==
    {Call("createProposal", s, 0, NoAddress, "", up, d) :
        s \in Addresses, up \in BOOLEAN, d \in Descriptions}
    \cup UNION {{Call("vote", s, p, a.encryptedVote.owner, a.proof, a.fheUp, "") :
                    a \in VoteAttempts(s)} : s \in Addresses, p \in PairIds}
    \cup {Call("makeVoteCountsPublic", s, p, NoAddress, "", TRUE, "") :
             s \in Addresses, p \in PairIds}
    \cup {Call("getMyVote", s, p, NoAddress, "", up, "") :
             s \in Addresses, p \in PairIds, up \in BOOLEAN}
    \cup {Call("hasUserVoted", a, p, NoAddress, "", TRUE, "") :
             a \in Addresses, p \in PairIds}
    \cup {Call(op, NoAddress, p, NoAddress, "", TRUE, "") :
             op \in {"proposals", "getEncryptedVoteCount", "getPublicVoteCounts"},
             p \in PairIds}
    \cup {Call("proposalCount", NoAddress, 0, NoAddress, "", TRUE, "")}

\* The ballot plaintexts a call may carry (only a vote carries one).
BallotChoices(c) == IF c.op = "vote" THEN Plaintexts ELSE {VoteOption_Yes}

\* The result of call c, its ballot encrypting x, in the execution at hand.
CallResult(c, x) ==
    CASE c.op = "createProposal" -> createProposalResult(c.sender, c.description, c.fheUp)
      [] c.op = "vote" ->
             voteResult(c.sender, c.proposalId, ExternalInput(c.owner, x), c.proof, c.fheUp)
      [] c.op = "makeVoteCountsPublic" -> makeVoteCountsPublicResult(c.sender, c.proposalId)
      [] c.op = "getMyVote" -> getMyVoteResult(c.sender, c.proposalId, c.fheUp)
      [] c.op = "hasUserVoted" -> hasUserVotedResult(c.proposalId, c.sender)
      [] c.op = "proposals" -> proposalsGetterResult(c.proposalId)
      [] c.op = "getEncryptedVoteCount" -> getEncryptedVoteCountResult(c.proposalId)
      [] c.op = "getPublicVoteCounts" -> getPublicVoteCountsResult(c.proposalId)
      [] c.op = "proposalCount" -> proposalCountResult
      [] OTHER -> Succeeded(NoEvent, <<>>)

\* The returned values that are plaintext (bool, uint, string): ciphertext
\* handles are left out.
PlainReturn(c, r) ==
    IF r.status # "ok" THEN <<>>
    ELSE IF c.op \in {"hasUserVoted", "proposalCount", "getPublicVoteCounts"} THEN r.ret
    ELSE IF c.op = "proposals" THEN <<r.ret[1], r.ret[4], r.ret[5], r.ret[6]>>
    ELSE <<>>

\* What call c shows in plaintext: whether and why it reverted, the events it
\* emitted and its plaintext return values.
CallSeen(c, x) ==
    LET r == CallResult(c, x)
    IN  Seen(r.status, r.reason, r.events, PlainReturn(c, r))

\* The step of the contract for call c with a ballot encrypting x.
CallStep(c, x) ==
    \/ c.op = "createProposal" /\ createProposal(c.sender, c.description, c.fheUp)
    \/ c.op = "vote" /\
           vote(c.sender, c.proposalId, ExternalInput(c.owner, x), c.proof, c.fheUp)
    \/ c.op = "makeVoteCountsPublic" /\ makeVoteCountsPublic(c.sender, c.proposalId)
    \/ c.op = "getMyVote" /\ getMyVote(c.sender, c.proposalId, c.fheUp)
    \/ c.op = "hasUserVoted" /\ hasUserVoted(c.proposalId, c.sender)
    \/ c.op = "proposals" /\ proposalsGetter(c.proposalId)
    \/ c.op = "getEncryptedVoteCount" /\ getEncryptedVoteCount(c.proposalId)
    \/ c.op = "getPublicVoteCounts" /\ getPublicVoteCounts(c.proposalId)
    \/ c.op = "proposalCount" /\ proposalCount

\* The execution at hand takes call c with a ballot encrypting x.
Lead(c, x) ==
    /\ twin.phase = "lead"
    /\ c.op = "createProposal" => Len(proposals) < MaxPairProposals
    /\ CallStep(c, x)
    /\ twin' = [twin EXCEPT !.phase = "switch", !.call = c,
                            !.seen = <<CallSeen(c, x), NothingSeen>>]
    /\ UNCHANGED <<flows, web3, site, fhe, sdk>>

\* The execution at hand is set aside and the other one is taken up.
Switch ==
    /\ twin.phase = "switch"
    /\ proposals' = twin.store.proposals
    /\ encryptedVotes' = twin.store.encryptedVotes
    /\ hasVoted' = twin.store.hasVoted
    /\ acl' = twin.store.acl
    /\ lastResult' = twin.store.lastResult
    /\ createdLog' = twin.store.createdLog
    /\ cast' = twin.store.cast
    /\ publishedOk' = twin.store.publishedOk
    /\ twin' = [twin EXCEPT !.phase = "follow", !.store = Ledger]
    /\ UNCHANGED <<flows, web3, site, fhe, sdk>>

\* The other execution takes the same call, its ballot encrypting y.
Follow(y) ==
    /\ twin.phase = "follow"
    /\ CallStep(twin.call, y)
    /\ twin' = [twin EXCEPT !.phase = "lead",
                            !.seen = <<twin.seen[1], CallSeen(twin.call, y)>>]
    /\ UNCHANGED <<flows, web3, site, fhe, sdk>>

PairNext ==
    \/ \E c \in PairCalls : \E x \in BallotChoices(c) : Lead(c, x)
    \/ Switch
    \/ \E y \in BallotChoices(twin.call) : Follow(y)

PairSpec == Init /\ [][PairNext]_vars

\* ------------------------------------------------- the client's castVote

\* VOTE_OPTIONS = { YES: 0, NO: 1 }
VOTE_OPTIONS == [YES |-> 0, NO |-> 1]

\* Proposal ids a client session passes: the valid ones and an invalid one.
ClientIds == 0..MaxClientProposals

\* contractService.hasUserVoted(userAddress, proposalId): the contract's view.
contractService_hasUserVoted(userAddress, proposalId) ==
    hasUserVotedResult(proposalId, userAddress)

\* contractService.castVote(proposalId, encryptedVote, proof): the vote
\* transaction, sent from the connected account.
contractService_castVote(userAddress, proposalId, encryptedVote, proof) ==
    vote(userAddress, proposalId, encryptedVote, proof, TRUE)

\* The proofs a submitted ballot may turn out to carry.
ClientProofs == {"valid", "forged"}

\* castVote ends: nothing of the call is kept but how it ended.
FlowDone == [IdleFlow EXCEPT !.pc = "done"]

FlowFailed(error) == [IdleFlow EXCEPT !.pc = "failed", !.error = error]

\* checkWalletConnection: setUserAddress(address) once a wallet is connected.
connectWallet(address) ==
    /\ flows.userAddress = NoAddress
    /\ flows' = [flows EXCEPT !.userAddress = address]
    /\ UNCHANGED <<ledger, twin, web3, site, fhe, sdk>>

\* castVote(proposalId, voteValue) is called and validates the vote value.
castVoteStart(f, proposalId, voteValue) ==
    /\ flows.userAddress # NoAddress
    /\ flows.calls[f].pc \in {"idle", "done", "failed"}
    /\ flows' =
           [flows EXCEPT !.calls[f] =
               IF voteValue # VOTE_OPTIONS.YES /\ voteValue # VOTE_OPTIONS.NO
               THEN FlowFailed("Invalid vote value")
               ELSE [IdleFlow EXCEPT !.pc = "checking", !.proposalId = proposalId,
                                     !.voteValue = voteValue]]
    /\ UNCHANGED <<ledger, twin, web3, site, fhe, sdk>>

\* await contractService.hasUserVoted(userAddress, proposalId), and the throw
\* when it says the user has voted.
castVoteCheck(f) ==
    LET c == flows.calls[f]
        r == contractService_hasUserVoted(flows.userAddress, c.proposalId)
    IN  /\ c.pc = "checking"
        /\ hasUserVoted(c.proposalId, flows.userAddress)
        /\ flows' =
               [flows EXCEPT !.calls[f] =
                   IF r.status # "ok" THEN FlowFailed(r.reason)
                   ELSE IF r.ret[1] THEN FlowFailed("You have already voted on this proposal")
                   ELSE [c EXCEPT !.pc = "encrypting"]]
        /\ UNCHANGED <<twin, web3, site, fhe, sdk>>

\* await fheService.encrypt(voteValue)
castVoteEncrypt(f) ==
    /\ flows.calls[f].pc = "encrypting"
    /\ flows' = [flows EXCEPT !.calls[f].pc = "proving"]
    /\ UNCHANGED <<ledger, twin, web3, site, fhe, sdk>>

\* await fheService.generateProof(encryptedVote)
castVoteProve(f, proof) ==
    /\ flows.calls[f].pc = "proving"
    /\ flows' = [flows EXCEPT !.calls[f].pc = "submitting", !.calls[f].proof = proof]
    /\ UNCHANGED <<ledger, twin, web3, site, fhe, sdk>>

\* await contractService.castVote(proposalId, encryptedVote, proof): the vote
\* transaction of the connected account; a revert is thrown and caught.
castVoteSubmit(f) ==
    LET c == flows.calls[f]
        encryptedVote == ExternalInput(flows.userAddress, c.voteValue)
        r == voteResult(flows.userAddress, c.proposalId, encryptedVote, c.proof, TRUE)
    IN  /\ c.pc = "submitting"
        /\ contractService_castVote(flows.userAddress, c.proposalId, encryptedVote, c.proof)
        /\ flows' =
               [flows EXCEPT !.calls[f] =
                   IF r.status = "ok" THEN FlowDone ELSE FlowFailed(r.reason)]
        /\ UNCHANGED <<twin, web3, site, fhe, sdk>>

ClientNext ==
    \/ \E a \in Addresses : connectWallet(a)
    \/ \E f \in FlowIds, p \in ClientIds, x \in Plaintexts : castVoteStart(f, p, x)
    \/ \E f \in FlowIds : castVoteCheck(f)
    \/ \E f \in FlowIds : castVoteEncrypt(f)
    \/ \E f \in FlowIds, proof \in ClientProofs : castVoteProve(f, proof)
    \/ \E f \in FlowIds : castVoteSubmit(f)
    \/ \E s \in Addresses, d \in Descriptions :
          /\ Len(proposals) < MaxClientProposals
          /\ createProposal(s, d, TRUE)
          /\ UNCHANGED outside
    \/ \E s \in Addresses, p \in ClientIds : \E a \in VoteAttempts(s) :
          vote(s, p, a.encryptedVote, a.proof, a.fheUp) /\ UNCHANGED outside
    \/ \E s \in Addresses, p \in ClientIds :
          makeVoteCountsPublic(s, p) /\ UNCHANGED outside

ClientSpec == Init /\ [][ClientNext]_vars

\* ------------------------------------------- an election of many voters

\* The address of the i-th voter.
WrapVoter(i) == "v" \o ToString(i)

WrapVoters == {WrapVoter(i) : i \in 1..MaxWrapVoters}

\* The election runs on the first proposal.
WrapIds == {0}

\* The contract after deployment, its mappings keyed by the voters.
WrapInit ==
    /\ proposals = <<>>
    /\ encryptedVotes = [p \in WrapIds |-> [a \in WrapVoters |-> UninitializedHandle]]
    /\ hasVoted = [p \in WrapIds |-> [a \in WrapVoters |-> FALSE]]
    /\ acl = {}
    /\ lastResult = Outcome(Succeeded(NoEvent, <<>>))
    /\ createdLog = <<>>
    /\ cast = [p \in WrapIds |-> [a \in WrapVoters |-> <<>>]]
    /\ publishedOk = [p \in WrapIds |-> 0]
    /\ twin = TwinInit
    /\ flows = FlowsInit
    /\ web3 = Web3Init
    /\ site = SiteInit
    /\ fhe = FheInit
    /\ sdk = SdkInit

\* The voters vote in the order of their numbers: the number of the next one.
WrapTurn == Cardinality({a \in WrapVoters : hasVoted[0][a]}) + 1

\* The voters whose accepted ballot on proposal p has plaintext x, whatever
\* the set of voters.
AcceptedBallots(p, x) ==
    {v \in DOMAIN cast[p] : cast[p][v] # <<>> /\ cast[p][v][1] = x}

\* The voters for Yes come first: once a No ballot is in, the rest vote No.
WrapChoices ==
    IF AcceptedBallots(0, VoteOption_No) = {}
    THEN {VoteOption_Yes, VoteOption_No}
    ELSE {VoteOption_No}

\* The first voter creates the proposal; the voters vote in turn.
WrapNext ==
    \/ \E d \in Descriptions :
          /\ proposals = <<>>
          /\ createProposal(WrapVoter(1), d, TRUE)
          /\ UNCHANGED outside
    \/ \E x \in WrapChoices : \E v \in {WrapVoter(WrapTurn)} :
          /\ v \in WrapVoters
          /\ vote(v, 0, ExternalInput(v, x), "valid", TRUE)
          /\ UNCHANGED outside

WrapSpec == WrapInit /\ [][WrapNext]_vars

\* ------------------------------------------------- the Web3Provider

\* Proposal ids passed to the provider: the valid ones and an invalid one.
ProviderIds == 0..MaxProviderProposals

\* const isCorrectNetwork = chainId === SEPOLIA_CHAIN_ID
isCorrectNetwork == web3.chainId = SEPOLIA_CHAIN_ID

\* validateNetwork(): false (after an alert) unless isCorrectNetwork.
validateNetwork == isCorrectNetwork

\* const numericVote = voteValue ? VOTE_OPTIONS.YES : VOTE_OPTIONS.NO
Web3Provider_numericVote(voteValue) == IF voteValue THEN VOTE_OPTIONS.YES ELSE VOTE_OPTIONS.NO

\* const encryptedVote = voteValue ? "0x01" : "0x00" (the provider with the
\* simplified encryption): the number the ballot encodes.
SimpleWeb3Provider_encryptedVote(voteValue) == IF voteValue THEN 1 ELSE 0

\* const proof = "0x" (the provider with the simplified encryption)
SimpleWeb3Provider_proof == "0x"

\* The transaction the contract instance submits for the signer now.
Submitted(op, from, proposalId, voteValue, plaintext) ==
    Transaction(op, from, proposalId, voteValue, plaintext, web3.walletChain,
                /\ web3.walletChain = SEPOLIA_CHAIN_ID
                /\ hasUserVotedResult(proposalId, from) = Succeeded(NoEvent, <<TRUE>>))

\* The app renders one of the two providers.
Web3Provider_mount(provider) ==
    /\ web3.provider = "none"
    /\ web3' = [web3 EXCEPT !.provider = provider, !.lastOp = "mount"]
    /\ UNCHANGED <<ledger, twin, flows, site, fhe, sdk>>

\* setAccount(accounts[0]); setChainId(currentChainId); setContract(...);
\* setIsConnected(true)
Connected(address) ==
    [web3 EXCEPT !.account = address, !.chainId = web3.walletChain,
                 !.contract = TRUE, !.isConnected = TRUE]

\* checkConnection, run once when the provider mounts: the connection is
\* restored when the wallet reports an authorised account.
Web3Provider_checkConnection(accounts) ==
    /\ web3.provider = "fhe"
    /\ web3.lastOp = "mount"
    /\ web3' = IF Len(accounts) > 0
               THEN [Connected(accounts[1]) EXCEPT !.lastOp = "checkConnection"]
               ELSE [web3 EXCEPT !.lastOp = "checkConnection"]
    /\ UNCHANGED <<ledger, twin, flows, site, fhe, sdk>>

\* connectWallet: the user authorises an account in the wallet.
Web3Provider_connectWallet(address) ==
    /\ web3.provider = "fhe"
    /\ web3' = [Connected(address) EXCEPT !.lastOp = "connectWallet"]
    /\ UNCHANGED <<ledger, twin, flows, site, fhe, sdk>>

Web3Provider_disconnectWallet ==
    /\ web3.provider = "fhe"
    /\ web3' = [web3 EXCEPT !.account = NoAddress, !.isConnected = FALSE,
                            !.chainId = NoChain, !.contract = FALSE,
                            !.lastOp = "disconnectWallet"]
    /\ UNCHANGED <<ledger, twin, flows, site, fhe, sdk>>

\* The wallet switches to another chain and handleChainChanged sets chainId.
Web3Provider_handleChainChanged(chain) ==
    /\ web3.provider # "none"
    /\ chain # web3.walletChain
    /\ web3' = [web3 EXCEPT !.walletChain = chain, !.chainId = chain,
                            !.lastOp = "chainChanged"]
    /\ UNCHANGED <<ledger, twin, flows, site, fhe, sdk>>

\* createProposal(description): contract.createProposal(description) is sent
\* to the chain the wallet is on; on Sepolia it reaches the contract.
Web3Provider_createProposal(description) ==
    /\ web3.provider = "fhe"
    /\ web3.contract /\ web3.account # NoAddress
    /\ web3' = [web3 EXCEPT !.lastOp = "createProposal",
                            !.lastTx = Submitted("createProposal", web3.account, 0, FALSE, 0)]
    /\ IF web3.walletChain = SEPOLIA_CHAIN_ID
       THEN /\ Len(proposals) < MaxProviderProposals
            /\ createProposal(web3.account, description, TRUE)
       ELSE UNCHANGED ledger
    /\ UNCHANGED <<twin, flows, site, fhe, sdk>>

\* vote(proposalId, voteValue) up to await fheEncrypt(numericVote): the throw
\* when FHE is not initialised and the return when validateNetwork() fails.
Web3Provider_voteStart(proposalId, voteValue, fheInitialized) ==
    /\ web3.provider = "fhe"
    /\ web3.contract /\ web3.account # NoAddress
    /\ web3.voting.pc = "idle"
    /\ web3' = [web3 EXCEPT
                   !.lastOp = "vote",
                   !.voting = IF fheInitialized /\ validateNetwork
                              THEN [pc |-> "encrypting", from |-> web3.account,
                                    proposalId |-> proposalId, voteValue |-> voteValue]
                              ELSE NotVoting]
    /\ UNCHANGED <<ledger, twin, flows, site, fhe, sdk>>

\* vote after fheEncrypt has returned: contract.vote(proposalId,
\* encryptedVote.encryptedValue, encryptedVote.proof).
Web3Provider_voteSubmit(proof) ==
    LET v == web3.voting
        numericVote == Web3Provider_numericVote(v.voteValue)
    IN  /\ v.pc = "encrypting"
        /\ web3' = [web3 EXCEPT
                       !.lastOp = "vote",
                       !.voting = NotVoting,
                       !.lastTx = Submitted("vote", v.from, v.proposalId, v.voteValue,
                                            numericVote)]
        /\ IF web3.walletChain = SEPOLIA_CHAIN_ID
           THEN vote(v.from, v.proposalId, ExternalInput(v.from, numericVote), proof, TRUE)
           ELSE UNCHANGED ledger
        /\ UNCHANGED <<twin, flows, site, fhe, sdk>>

\* makeVoteCountsPublic(proposalId): contract.makeVoteCountsPublic(proposalId).
Web3Provider_makeVoteCountsPublic(proposalId) ==
    /\ web3.provider = "fhe"
    /\ web3.contract /\ web3.account # NoAddress
    /\ web3' = [web3 EXCEPT
                   !.lastOp = "makeVoteCountsPublic",
                   !.lastTx = Submitted("makeVoteCountsPublic", web3.account, proposalId,
                                        FALSE, 0)]
    /\ IF web3.walletChain = SEPOLIA_CHAIN_ID
       THEN makeVoteCountsPublic(web3.account, proposalId)
       ELSE UNCHANGED ledger
    /\ UNCHANGED <<twin, flows, site, fhe, sdk>>

\* connectWallet of the provider with the simplified encryption.
SimpleWeb3Provider_connectWallet(address) ==
    /\ web3.provider = "simplified"
    /\ web3' = [Connected(address) EXCEPT !.lastOp = "connectWallet"]
    /\ UNCHANGED <<ledger, twin, flows, site, fhe, sdk>>

\* vote(proposalId, voteValue) of the provider with the simplified
\* encryption: contract.vote(proposalId, encryptedVote, proof).
SimpleWeb3Provider_vote(proposalId, voteValue) ==
    LET plaintext == SimpleWeb3Provider_encryptedVote(voteValue)
    IN  /\ web3.provider = "simplified"
        /\ web3.contract /\ web3.account # NoAddress
        /\ web3' = [web3 EXCEPT
                       !.lastOp = "vote",
                       !.lastTx = Submitted("vote", web3.account, proposalId, voteValue,
                                            plaintext)]
        /\ IF web3.walletChain = SEPOLIA_CHAIN_ID
           THEN vote(web3.account, proposalId, ExternalInput(web3.account, plaintext),
                     SimpleWeb3Provider_proof, TRUE)
           ELSE UNCHANGED ledger
        /\ UNCHANGED <<twin, flows, site, fhe, sdk>>

ProviderNext ==
    \/ \E provider \in {"fhe", "simplified"} : Web3Provider_mount(provider)
    \/ \E accounts \in {<<>>} \cup {<<a>> : a \in Addresses} :
          Web3Provider_checkConnection(accounts)
    \/ \E a \in Addresses : Web3Provider_connectWallet(a)
    \/ Web3Provider_disconnectWallet
    \/ \E chain \in WalletChains : Web3Provider_handleChainChanged(chain)
    \/ \E d \in Descriptions : Web3Provider_createProposal(d)
    \/ \E p \in ProviderIds, voteValue \in BOOLEAN, fheInitialized \in BOOLEAN :
          Web3Provider_voteStart(p, voteValue, fheInitialized)
    \/ \E proof \in ClientProofs : Web3Provider_voteSubmit(proof)
    \/ \E p \in ProviderIds : Web3Provider_makeVoteCountsPublic(p)
    \/ \E a \in Addresses : SimpleWeb3Provider_connectWallet(a)
    \/ \E p \in ProviderIds, voteValue \in BOOLEAN : SimpleWeb3Provider_vote(p, voteValue)
    \/ \E s \in Addresses, d \in Descriptions :
          /\ Len(proposals) < MaxProviderProposals
          /\ createProposal(s, d, TRUE)
          /\ UNCHANGED outside

ProviderSpec == Init /\ [][ProviderNext]_vars

\* ------------------------------------------------- the deployment scripts

\* The addresses a deployment may report.
DeployedAddresses == {"0xA", "0xB", "0xC"}

\* What deploy.sh extracts from the output of a failed deployment.
NoAddressExtracted == ""

\* $OSTYPE of the machine a script runs on.
OsTypes == {"darwin", "linux-gnu"}

\* sed -i '' "s/.../.../" file edits the file with BSD sed; GNU sed takes ''
\* as the script and leaves the file as it is.
SedInPlaceEdits(ostype) == ostype = "darwin"

\* setup-env.sh: voting-app/.env is written anew with an empty address.
setup_env ==
    /\ site' = [site EXCEPT !.env = "", !.lastRun = "setup-env.sh", !.exit = 0,
                            !.replaced = FALSE]
    /\ UNCHANGED <<ledger, twin, flows, web3, fhe, sdk>>

\* deploy-and-update.sh: deploy, back up the address of .env when .env has
\* one, write the new address to .env and to contracts.ts, build.
deploy_and_update(ostype, address, deployed, built) ==
    /\ site' =
           IF ~deployed
           THEN [site EXCEPT !.lastRun = "deploy-and-update.sh", !.exit = 1,
                             !.replaced = FALSE]
           ELSE [site EXCEPT !.backup = IF site.env # NoLine THEN site.env ELSE @,
                             !.env = address,
                             !.fallback = address,
                             !.lastRun = "deploy-and-update.sh",
                             !.exit = IF built THEN 0 ELSE 1,
                             !.replaced = TRUE,
                             !.before = Config(site.env, site.fallback)]
    /\ UNCHANGED <<ledger, twin, flows, web3, fhe, sdk>>

\* deploy.sh: deploy and write the address found in the output to .env and
\* to contracts.ts; nothing is checked and nothing is backed up.
deploy_sh(ostype, address) ==
    LET env == IF site.env = NoLine THEN address
               ELSE IF SedInPlaceEdits(ostype) THEN address
               ELSE site.env
        fallback == IF SedInPlaceEdits(ostype) THEN address ELSE site.fallback
    IN  /\ site' = [site EXCEPT !.env = env,
                                !.fallback = fallback,
                                !.lastRun = "deploy.sh",
                                !.exit = 0,
                                !.replaced = (env # site.env \/ fallback # site.fallback),
                                !.before = IF env # site.env \/ fallback # site.fallback
                                           THEN Config(site.env, site.fallback)
                                           ELSE @]
        /\ UNCHANGED <<ledger, twin, flows, web3, fhe, sdk>>

\* rollback.sh: exit 1 without a backup file; else write the backed-up
\* address to .env (when it has the line) and to contracts.ts.
rollback_sh(ostype) ==
    /\ site' =
           IF site.backup = NoFile
           THEN [site EXCEPT !.lastRun = "rollback.sh", !.exit = 1, !.replaced = FALSE]
           ELSE [site EXCEPT
                    !.env = IF site.env # NoLine /\ SedInPlaceEdits(ostype)
                            THEN site.backup ELSE @,
                    !.fallback = IF SedInPlaceEdits(ostype) THEN site.backup ELSE @,
                    !.lastRun = "rollback.sh",
                    !.exit = 0,
                    !.replaced = FALSE]
    /\ UNCHANGED <<ledger, twin, flows, web3, fhe, sdk>>

\* A new deployment never reports an address that is configured already.
NewAddresses == DeployedAddresses \ {site.env, site.fallback, site.backup}

DeployNext ==
    \/ setup_env
    \/ \E ostype \in OsTypes, address \in NewAddresses, deployed \in BOOLEAN,
          built \in BOOLEAN : deploy_and_update(ostype, address, deployed, built)
    \/ \E ostype \in OsTypes, address \in NewAddresses \cup {NoAddressExtracted} :
          deploy_sh(ostype, address)
    \/ \E ostype \in OsTypes : rollback_sh(ostype)

DeploySpec == Init /\ [][DeployNext]_vars

\* ------------------------------------------------- the FHEService

\* configChanged(newConfig): no config yet, or another account, chain or RPC.
configChanged(newConfig) ==
    \/ fhe.currentConfig = NoConfig
    \/ fhe.currentConfig.account # newConfig.account
    \/ fhe.currentConfig.chainId # newConfig.chainId
    \/ fhe.currentConfig.rpcUrl # newConfig.rpcUrl

\* clearDecryptCache(): decryptCache.clear().
ClearedCache == [h \in FheHandles |-> NoEntry]

\* The service after reset(): instance and initPromise are null, the cache
\* is empty, currentConfig stays.
ResetService(service) ==
    [service EXCEPT !.instance = NoInstance,
                    !.initPromise = NoPromise,
                    !.decryptCache = ClearedCache]

\* The service as getInstance(config) finds it after its first statement.
AfterConfigCheck(config) == IF configChanged(config) THEN ResetService(fhe) ELSE fhe

\* The methods that begin with await this.getInstance(config).
FheOps == {"getInstance", "decrypt"}

\* A call that has its instance: getInstance returns it, decrypt goes on to
\* the cache.
WithInstance(call, instance) ==
    IF call.op = "getInstance"
    THEN [call EXCEPT !.pc = "done", !.instance = instance, !.status = "ok"]
    ELSE [call EXCEPT !.pc = "gotInstance", !.instance = instance]

\* A call whose promise rejected: the rejection is what the caller sees.
Rejected(call) == [call EXCEPT !.pc = "done", !.status = "rejected"]

\* getInstance(config) up to its first await, on behalf of the method op:
\* reset on a changed config, return the instance if there is one, await
\* initPromise if there is one, else record the config, start
\* createZamaInstance(config) and await it.
FHEService_getInstance(c, op, config, handle) ==
    LET service == AfterConfigCheck(config)
        call == FheCall(op, config, handle, "idle", NoPromise, NoInstance, FALSE, "none", <<>>)
        creation == Len(fhe.created) + 1
    IN  /\ fhe.calls[c].pc \in {"idle", "done"}
        /\ IF service.instance # NoInstance
           THEN fhe' = [service EXCEPT !.calls[c] = WithInstance(call, service.instance)]
           ELSE IF service.initPromise # NoPromise
           THEN fhe' = [service EXCEPT
                           !.calls[c] =
                               [call EXCEPT
                                   !.pc = "awaitInitPromise",
                                   !.promise = service.initPromise,
                                   !.late = service.created[service.initPromise].state # "pending"]]
           ELSE /\ creation <= MaxCreations
                /\ fhe' = [service EXCEPT
                              !.currentConfig = config,
                              !.initPromise = creation,
                              !.created = Append(@, [config |-> config, state |-> "pending"]),
                              !.calls[c] = [call EXCEPT !.pc = "awaitCreation",
                                                        !.promise = creation]]
        /\ UNCHANGED <<ledger, twin, flows, web3, site, sdk>>

\* createZamaInstance(config) settles: the instance, or an error of the SDK
\* load or of window.createInstance.
createZamaInstance_settles(creation, state) ==
    /\ creation \in 1..Len(fhe.created)
    /\ fhe.created[creation].state = "pending"
    /\ fhe' = [fhe EXCEPT !.created[creation].state = state]
    /\ UNCHANGED <<ledger, twin, flows, web3, site, sdk>>

\* getInstance after its await: the call that started the creation assigns
\* this.instance, and both kinds of call return the instance of the promise;
\* a rejected promise rejects the call.
FHEService_getInstance_resume(c) ==
    LET call == fhe.calls[c]
        state == fhe.created[call.promise].state
    IN  /\ call.pc \in {"awaitCreation", "awaitInitPromise"}
        /\ state # "pending"
        /\ fhe' = IF state = "rejected"
                  THEN [fhe EXCEPT !.calls[c] = Rejected(call)]
                  ELSE [fhe EXCEPT
                           !.instance = IF call.pc = "awaitCreation" THEN call.promise ELSE @,
                           !.calls[c] = WithInstance(call, call.promise)]
        /\ UNCHANGED <<ledger, twin, flows, web3, site, sdk>>

\* decrypt after await this.getInstance(config): a fresh cache entry is
\* returned, otherwise instance.userDecrypt(encryptedValue) is called.
FHEService_decrypt_lookup(c) ==
    LET call == fhe.calls[c]
        cached == fhe.decryptCache[call.handle]
    IN  /\ call.pc = "gotInstance"
        /\ fhe' = IF cached # NoEntry /\ cached.fresh
                  THEN [fhe EXCEPT !.calls[c] = [call EXCEPT !.pc = "done", !.status = "ok",
                                                             !.value = cached.value]]
                  ELSE [fhe EXCEPT !.calls[c] = [call EXCEPT !.pc = "userDecrypt"]]
        /\ UNCHANGED <<ledger, twin, flows, web3, site, sdk>>

\* decrypt after await instance.userDecrypt(encryptedValue): the result is
\* put in the cache and returned; an error is thrown on.
FHEService_decrypt_resume(c, decrypted) ==
    LET call == fhe.calls[c]
        result == Decrypted(call.handle, call.instance, call.config)
    IN  /\ call.pc = "userDecrypt"
        /\ fhe' = IF decrypted
                  THEN [fhe EXCEPT
                           !.decryptCache[call.handle] = [value |-> result, fresh |-> TRUE],
                           !.calls[c] = [call EXCEPT !.pc = "done", !.status = "ok",
                                                     !.value = result]]
                  ELSE [fhe EXCEPT !.calls[c] = Rejected(call)]
        /\ UNCHANGED <<ledger, twin, flows, web3, site, sdk>>

\* DECRYPT_CACHE_DURATION passes: Date.now() - cached.timestamp is no longer
\* below it for the entries there are.
FHEService_cacheExpires ==
    /\ \E h \in FheHandles : fhe.decryptCache[h].fresh
    /\ fhe' = [fhe EXCEPT
                  !.decryptCache = [h \in FheHandles |-> [fhe.decryptCache[h] EXCEPT !.fresh = FALSE]]]
    /\ UNCHANGED <<ledger, twin, flows, web3, site, sdk>>

\* reset() called from outside: a public method of the exported singleton.
FHEService_reset ==
    /\ fhe' = ResetService(fhe)
    /\ fhe' # fhe
    /\ UNCHANGED <<ledger, twin, flows, web3, site, sdk>>

\* clearDecryptCache() called from outside.
FHEService_clearDecryptCache ==
    /\ fhe' = [fhe EXCEPT !.decryptCache = ClearedCache]
    /\ fhe' # fhe
    /\ UNCHANGED <<ledger, twin, flows, web3, site, sdk>>

FheNext ==
    \/ \E c \in FheCalls, op \in FheOps, config \in FheConfigs, handle \in FheHandles :
          FHEService_getInstance(c, op, config, handle)
    \/ \E creation \in 1..MaxCreations, state \in {"resolved", "rejected"} :
          createZamaInstance_settles(creation, state)
    \/ \E c \in FheCalls : FHEService_getInstance_resume(c)
    \/ \E c \in FheCalls : FHEService_decrypt_lookup(c)
    \/ \E c \in FheCalls, decrypted \in BOOLEAN : FHEService_decrypt_resume(c, decrypted)
    \/ FHEService_cacheExpires
    \/ FHEService_reset
    \/ FHEService_clearDecryptCache

FheSpec == Init /\ [][FheNext]_vars

\* ------------------------------------------------- the SDK loader

\* resolve() and reject() of the load promise: a settled promise stays as it is.
Resolve(promise) == IF promise = "pending" THEN "resolved" ELSE promise
Reject(promise) == IF promise = "pending" THEN "rejected" ELSE promise

\* tryDynamicImport() up to its await: the import is under way.
TryDynamicImport(loader) == [loader EXCEPT !.import = "pending", !.imports = @ + 1]

\* The executor of the load promise: with the SDK on window the promise
\* resolves at once; otherwise tryCDN() appends the script element and the
\* load timeout is set.
NewLoadPromise(loader) ==
    IF loader.window
    THEN [loader EXCEPT !.promises = @ + 1, !.sdkLoaded = TRUE, !.sdkLoadPromise = "resolved"]
    ELSE [loader EXCEPT !.promises = @ + 1, !.sdkLoadPromise = "pending",
                        !.script = "loading", !.scripts = @ + 1,
                        !.loadTimeout = "set"]

\* Mutant of loadZamaSDKFromCDN: a rejected load promise is forgotten and a
\* call after it loads anew.
loadZamaSDKFromCDN_RetriesAfterFailure(c) ==
    /\ sdk.callers[c] # "waiting"
    /\ sdk' = IF sdk.sdkLoaded
              THEN [sdk EXCEPT !.callers[c] = "resolved"]
              ELSE IF sdk.sdkLoadPromise \in {"pending", "resolved"}
              THEN [sdk EXCEPT !.callers[c] = "waiting"]
              ELSE [NewLoadPromise(sdk) EXCEPT !.callers[c] = "waiting"]
    /\ UNCHANGED <<ledger, twin, flows, web3, site, fhe>>

\* loadZamaSDKFromCDN() in the browser, up to its await: return when
\* sdkLoaded, await the load promise when there is one, else make it and
\* await it.
loadZamaSDKFromCDN(c) ==
    /\ sdk.callers[c] # "waiting"
    /\ sdk' = IF sdk.sdkLoaded
              THEN [sdk EXCEPT !.callers[c] = "resolved"]
              ELSE IF sdk.sdkLoadPromise # "null"
              THEN [sdk EXCEPT !.callers[c] = "waiting"]
              ELSE [NewLoadPromise(sdk) EXCEPT !.callers[c] = "waiting"]
    /\ UNCHANGED <<ledger, twin, flows, web3, site, fhe>>

\* A caller's await sdkLoadPromise ends when the promise has settled.
loadZamaSDKFromCDN_resume(c) ==
    /\ sdk.callers[c] = "waiting"
    /\ sdk.sdkLoadPromise \in {"resolved", "rejected"}
    /\ sdk' = [sdk EXCEPT !.callers[c] = sdk.sdkLoadPromise]
    /\ UNCHANGED <<ledger, twin, flows, web3, site, fhe>>

\* script.onload: the script has run, having defined the SDK on window or
\* not, and the check of window is set for 2 seconds later.
script_onload(defines) ==
    /\ sdk.script = "loading"
    /\ sdk' = [sdk EXCEPT !.script = "loaded", !.window = @ \/ defines,
                          !.onloadTimer = "set"]
    /\ UNCHANGED <<ledger, twin, flows, web3, site, fhe>>

\* script.onerror: the dynamic import is tried.
script_onerror ==
    /\ sdk.script = "loading"
    /\ sdk' = TryDynamicImport([sdk EXCEPT !.script = "failed"])
    /\ UNCHANGED <<ledger, twin, flows, web3, site, fhe>>

\* The timer of script.onload fires: with the SDK on window the load has
\* succeeded, otherwise the dynamic import is tried.
onloadTimer_fires ==
    /\ sdk.onloadTimer = "set"
    /\ sdk' = IF sdk.window
              THEN [sdk EXCEPT !.onloadTimer = "fired", !.sdkLoaded = TRUE,
                               !.sdkLoadPromise = Resolve(@)]
              ELSE TryDynamicImport([sdk EXCEPT !.onloadTimer = "fired"])
    /\ UNCHANGED <<ledger, twin, flows, web3, site, fhe>>

\* What a dynamic import comes to: a module with initSDK and createInstance,
\* a module without them, or an error.
ImportOutcomes == {"functions", "no functions", "error"}

\* The dynamic import settles: the functions of the module are assigned to
\* window, and the load succeeds if both are there; otherwise, and on an
\* error of the import, the promise is rejected.
dynamicImport_settles(outcome) ==
    /\ sdk.import = "pending"
    /\ sdk' = IF outcome = "functions"
              THEN [sdk EXCEPT !.import = "resolved", !.window = TRUE, !.sdkLoaded = TRUE,
                               !.sdkLoadPromise = Resolve(@)]
              ELSE IF outcome = "no functions"
              THEN [sdk EXCEPT !.import = "resolved", !.window = FALSE,
                               !.sdkLoadPromise = Reject(@)]
              ELSE [sdk EXCEPT !.import = "rejected", !.sdkLoadPromise = Reject(@)]
    /\ UNCHANGED <<ledger, twin, flows, web3, site, fhe>>

\* Mutant of loadTimeout_fires: the timeout rejects nothing.
loadTimeout_fires_Silent ==
    /\ sdk.loadTimeout = "set"
    /\ sdk' = [sdk EXCEPT !.loadTimeout = "fired"]
    /\ UNCHANGED <<ledger, twin, flows, web3, site, fhe>>

\* The timeout of 15 seconds fires: the promise is rejected unless sdkLoaded.
loadTimeout_fires ==
    /\ sdk.loadTimeout = "set"
    /\ sdk' = [sdk EXCEPT !.loadTimeout = "fired",
                          !.sdkLoadPromise = IF sdk.sdkLoaded THEN @ ELSE Reject(@)]
    /\ UNCHANGED <<ledger, twin, flows, web3, site, fhe>>

\* The other copy of the loader on the page (src/unnamed/part_005) assigns
\* initSDK and createInstance to window after its own import.
otherLoader_definesSDK ==
    /\ ~sdk.window
    /\ sdk' = [sdk EXCEPT !.window = TRUE]
    /\ UNCHANGED <<ledger, twin, flows, web3, site, fhe>>

SdkNext ==
    \/ \E c \in SdkCalls : loadZamaSDKFromCDN(c)
    \/ \E c \in SdkCalls : loadZamaSDKFromCDN_resume(c)
    \/ \E defines \in BOOLEAN : script_onload(defines)
    \/ script_onerror
    \/ onloadTimer_fires
    \/ \E outcome \in ImportOutcomes : dynamicImport_settles(outcome)
    \/ loadTimeout_fires
    \/ otherLoader_definesSDK

SdkSpec == Init /\ [][SdkNext]_vars

\* Timers that are set fire, and a caller whose promise has settled goes on;
\* the script's events and the dynamic import may never come.
SdkFairness ==
    /\ WF_vars(loadTimeout_fires)
    /\ WF_vars(onloadTimer_fires)
    /\ \A c \in SdkCalls : WF_vars(loadZamaSDKFromCDN_resume(c))

SdkLiveSpec == Init /\ [][SdkNext]_vars /\ SdkFairness

\* ---------------------------------------------------------------- claims

ValidIds == {p \in ProposalIds : p < Len(proposals)}

\* The voters whose accepted ballot on proposal p has plaintext x.
BallotsOf(p, x) == {v \in Addresses : cast[p][v] # <<>> /\ cast[p][v][1] = x}

\* What vote(s, p, ...) reports for one of the ballots a caller may attach.
VoteResultOf(s, p, a) == voteResult(s, p, a.encryptedVote, a.proof, a.fheUp)

\* No voter has two accepted ballots on a proposal, and a voter who has voted
\* on p is refused every further vote on p with "Already voted".
C1_AlreadyVotedState ==
    \A p \in ProposalIds, v \in Addresses :
        /\ Len(cast[p][v]) <= 1
        /\ hasVoted[p][v] =>
               \A a \in VoteAttempts(v) :
                   VoteResultOf(v, p, a) = Reverted("Already voted")

\* The accepted ballots of a voter who has voted do not grow, and a call
\* refused with "Already voted" changes neither accumulators nor ballots.
C1_AlreadyVotedStep ==
    /\ \A p \in ProposalIds, v \in Addresses :
           hasVoted[p][v] => cast'[p][v] = cast[p][v]
    /\ lastResult'.reason = "Already voted" =>
           UNCHANGED <<proposals, hasVoted, encryptedVotes>>

\* C1: for every proposal p and voter v at most one vote by v on p ever
\* succeeds; once v has voted on p, every vote by v on p reverts with
\* "Already voted" and leaves the accumulators (and the ballot records) as
\* they were.
C1_AtMostOneVote == [](C1_AlreadyVotedState) /\ [][C1_AlreadyVotedStep]_vars

\* C1 witness: a voter has one accepted ballot and a later vote of theirs was
\* just rejected as a double vote.
C1_Witness ==
    /\ lastResult.reason = "Already voted"
    /\ \E p \in ValidIds, v \in Addresses : Len(cast[p][v]) = 1 /\ hasVoted[p][v]

\* C2: while no voter has more than one accepted ballot on proposal p, the
\* plaintext of yesCount is the number of voters whose accepted ballot is Yes
\* and the plaintext of noCount the number whose accepted ballot is No, in
\* every reachable state (hence for every order of the calls).
C2_TallyCorrect ==
    \A p \in ValidIds :
        (\A v \in Addresses : Len(cast[p][v]) <= 1) =>
            /\ ProposalAt(p).yesCount.pt = Cardinality(BallotsOf(p, VoteOption_Yes))
            /\ ProposalAt(p).noCount.pt = Cardinality(BallotsOf(p, VoteOption_No))

\* C2 witness: one Yes and one No ballot on a proposal, ballots on another
\* proposal as well, and the accumulators decrypt to (1, 1).
C2_Witness ==
    \E p \in ValidIds, q \in ValidIds :
        /\ p # q
        /\ Cardinality(BallotsOf(p, VoteOption_Yes)) = 1
        /\ Cardinality(BallotsOf(p, VoteOption_No)) = 1
        /\ ProposalAt(p).yesCount.pt = 1
        /\ ProposalAt(p).noCount.pt = 1
        /\ BallotsOf(q, VoteOption_Yes) # {}

\* C3: once a proposal is public, no step changes the plaintext of its
\* yesCount or noCount.
C3_NoCountingAfterPublic ==
    [][\A p \in ValidIds :
          ProposalAt(p).isPublic =>
              /\ proposals'[p + 1].yesCount.pt = ProposalAt(p).yesCount.pt
              /\ proposals'[p + 1].noCount.pt = ProposalAt(p).noCount.pt]_vars

\* C4: a successful makeVoteCountsPublic(p) stores the plaintexts of yesCount
\* and noCount in publicYesCount and publicNoCount, sets isPublic, and reports
\* the same two numbers in VoteCountsMadePublic.
C4_PublishStoresTallies ==
    [][\A p \in ValidIds :
          publishedOk'[p] = publishedOk[p] + 1 =>
              /\ proposals'[p + 1].isPublic
              /\ proposals'[p + 1].publicYesCount = ProposalAt(p).yesCount.pt
              /\ proposals'[p + 1].publicNoCount = ProposalAt(p).noCount.pt
              /\ PublishedEvent(p, ProposalAt(p)) =
                     VoteCountsMadePublic(p, ProposalAt(p).yesCount.pt,
                                          ProposalAt(p).noCount.pt)]_vars

\* C5: makeVoteCountsPublic succeeds at most once per proposal; in every
\* state after it has succeeded the proposal is public and a further
\* makeVoteCountsPublic by any caller reverts with "Vote counts already public".
C5_PublishOneWay ==
    \A p \in ProposalIds :
        /\ publishedOk[p] <= 1
        /\ publishedOk[p] >= 1 =>
               /\ p \in ValidIds
               /\ ProposalAt(p).isPublic
               /\ \A s \in Addresses :
                      makeVoteCountsPublicResult(s, p) =
                          Reverted("Vote counts already public")

\* C5 witness: a proposal was published, votes were cast on it, and a second
\* publication was just rejected.
C5_Witness ==
    /\ lastResult.reason = "Vote counts already public"
    /\ \E p \in ValidIds :
           /\ publishedOk[p] = 1
           /\ \E v \in Addresses : hasVoted[p][v]

\* C6: a call that reverts leaves proposals, hasVoted, the stored ballots and
\* the granted permissions exactly as they were.
C6_AllOrNothing ==
    [][lastResult'.status = "reverted" => UNCHANGED storage]_vars

\* C6 witness: a vote was just rejected for its proof on the only proposal,
\* on which nobody has voted.
C6_Witness ==
    /\ lastResult.reason = "ProofVerificationFailed"
    /\ Len(proposals) = 1
    /\ \A v \in Addresses : ~hasVoted[0][v]

\* Every operation that takes a proposal id reports "Invalid proposal" for an
\* id >= proposals.length.
C7_InvalidIdState ==
    \A p \in ProposalIds :
        p >= Len(proposals) =>
            LET invalid == Reverted("Invalid proposal")
            IN  /\ \A s \in Addresses :
                       /\ \A a \in VoteAttempts(s) : VoteResultOf(s, p, a) = invalid
                       /\ makeVoteCountsPublicResult(s, p) = invalid
                       /\ \A up \in BOOLEAN : getMyVoteResult(s, p, up) = invalid
                       /\ hasUserVotedResult(p, s) = invalid
                /\ getEncryptedVoteCountResult(p) = invalid
                /\ getPublicVoteCountsResult(p) = invalid

\* C7: for an id >= proposalCount every operation that takes a proposal id
\* (vote, makeVoteCountsPublic, getEncryptedVoteCount, getMyVote,
\* getPublicVoteCounts, hasUserVoted) reverts with "Invalid proposal", whoever
\* calls it and whatever else it is given, and a call that reverts so changes
\* no storage.
C7_InvalidProposal ==
    /\ [](C7_InvalidIdState)
    /\ [][lastResult'.reason = "Invalid proposal" => UNCHANGED storage]_vars

\* C7 witness: one proposal exists and a call with an id out of range was
\* just rejected.
C7_Witness ==
    /\ Len(proposals) = 1
    /\ lastResult.reason = "Invalid proposal"

\* A voter who has not voted on p is reported Voted for an out-of-domain
\* ballot with a valid proof.
C8_OutOfDomainState ==
    \A p \in ValidIds, v \in Addresses, x \in Plaintexts \ {VoteOption_Yes, VoteOption_No} :
        ~hasVoted[p][v] =>
            voteResult(v, p, ExternalInput(v, x), "valid", TRUE) =
                Succeeded(<<Voted(p, v)>>, <<>>)

\* The step that accepts an out-of-domain ballot sets hasVoted and keeps the
\* plaintexts of both accumulators.
C8_OutOfDomainStep ==
    \A p \in ValidIds, v \in Addresses :
        (/\ cast'[p][v] # cast[p][v]
         /\ cast'[p][v][Len(cast'[p][v])] \notin {VoteOption_Yes, VoteOption_No}) =>
            /\ hasVoted'[p][v]
            /\ lastResult'.status = "ok"
            /\ proposals'[p + 1].yesCount.pt = ProposalAt(p).yesCount.pt
            /\ proposals'[p + 1].noCount.pt = ProposalAt(p).noCount.pt

\* C8: a ballot whose plaintext is neither Yes nor No is accepted with a valid
\* proof (Voted is emitted); the step that accepts it sets hasVoted and leaves
\* the plaintexts of yesCount and noCount as they were.
C8_OutOfDomainBallot == [](C8_OutOfDomainState) /\ [][C8_OutOfDomainStep]_vars

\* C8 witness: an out-of-domain ballot was accepted after a Yes ballot, the
\* voter is marked as having voted and the accumulators decrypt to (1, 0).
C8_Witness ==
    \E p \in ValidIds, v \in Addresses, u \in Addresses :
        /\ cast[p][v] # <<>>
        /\ cast[p][v][1] \notin {VoteOption_Yes, VoteOption_No}
        /\ hasVoted[p][v]
        /\ cast[p][u] = <<VoteOption_Yes>>
        /\ ProposalAt(p).yesCount.pt = 1
        /\ ProposalAt(p).noCount.pt = 0

\* C9: the n-th successful createProposal reports id n-1 and its proposal is
\* stored at that index; proposalCount() is the number of successful
\* createProposal calls.
C9_DenseIds ==
    /\ Len(proposals) = Len(createdLog)
    /\ proposalCountResult = Succeeded(NoEvent, <<Len(createdLog)>>)
    /\ \A i \in 1..Len(createdLog) :
           /\ createdLog[i].id = i - 1
           /\ proposals[i].description = createdLog[i].description

\* C9 witness: two proposals were created, and the first has a ballot and is
\* public.
C9_Witness ==
    /\ Len(createdLog) = 2
    /\ ProposalAt(0).isPublic
    /\ \E v \in Addresses : hasVoted[0][v]

\* C10: every permission on the ballot recorded for (p, v) is held by v; what
\* getMyVote returns to a caller u is u's own ballot, never the ballot of
\* another voter.
C10_OnlyVoterDecrypts ==
    /\ \A p \in ValidIds, v \in Addresses :
           hasVoted[p][v] =>
               {a \in Addresses : <<encryptedVotes[p][v], a>> \in acl} \subseteq {v}
    /\ \A p \in ValidIds, q \in ValidIds, u \in Addresses, v \in Addresses :
           (u # v /\ hasVoted[p][u] /\ hasVoted[q][v]) =>
               /\ getMyVoteResult(u, p, TRUE).status = "ok"
               /\ getMyVoteResult(u, p, TRUE).ret # <<encryptedVotes[q][v]>>

\* C10 witness: two voters have voted on a proposal and one of them holds the
\* permission on their own ballot.
C10_Witness ==
    \E p \in ValidIds, u \in Addresses, v \in Addresses :
        /\ u # v
        /\ hasVoted[p][u]
        /\ hasVoted[p][v]
        /\ <<encryptedVotes[p][v], v>> \in acl

\* C11: when two executions take the same calls and differ only in the
\* plaintexts of the ballots submitted, every call shows the same in both
\* (status, revert reason, events, plaintext return values such as the
\* hasUserVoted result and proposalCount), and the two ledgers agree on the
\* number of proposals, the isPublic flags and the hasVoted flags.
C11_ChoiceNotObservable ==
    twin.phase = "lead" =>
        /\ twin.seen[1] = twin.seen[2]
        /\ lastResult = twin.store.lastResult
        /\ Len(proposals) = Len(twin.store.proposals)
        /\ \A i \in DOMAIN proposals :
               /\ proposals[i].isPublic = twin.store.proposals[i].isPublic
               /\ proposals[i].description = twin.store.proposals[i].description
        /\ hasVoted = twin.store.hasVoted
        /\ proposalCountResult.ret = <<Len(twin.store.createdLog)>>

\* C11 witness: a vote was just accepted in both executions with the same
\* Voted event, the ballot being Yes in one and No in the other, after
\* another voter voted out of domain in one and Yes in the other.
C11_Witness ==
    \E v \in Addresses, u \in Addresses :
        /\ twin.phase = "lead"
        /\ twin.seen = <<Seen("ok", NoError, <<Voted(0, v)>>, <<>>),
                         Seen("ok", NoError, <<Voted(0, v)>>, <<>>)>>
        /\ {cast[0][v], twin.store.cast[0][v]} = {<<VoteOption_Yes>>, <<VoteOption_No>>}
        /\ {cast[0][u], twin.store.cast[0][u]} = {<<2>>, <<VoteOption_Yes>>}

\* C12: with the FHE capability available, a vote reverts with "Invalid
\* proposal" exactly when the id is out of range; for a valid id it reverts
\* with "Already voted" exactly when the caller has voted on the proposal,
\* whatever proof is attached; for a valid id and a caller who has not voted
\* it reverts with the proof-verification failure exactly when the proof is
\* rejected, and succeeds otherwise.
C12_DistinctFailureKinds ==
    \A p \in ProposalIds, s \in Addresses :
        \A a \in {b \in VoteAttempts(s) : b.fheUp} :
            LET r == VoteResultOf(s, p, a)
                rejected == ~FHE_proofVerifies(a.encryptedVote, a.proof, s)
            IN  /\ (r = Reverted("Invalid proposal")) <=> (p >= Len(proposals))
                /\ p < Len(proposals) =>
                       ((r = Reverted("Already voted")) <=> hasVoted[p][s])
                /\ (p < Len(proposals) /\ ~hasVoted[p][s]) =>
                       /\ (r = Reverted("ProofVerificationFailed")) <=> rejected
                       /\ ~rejected => r.status = "ok"

\* C12 witness: a double vote was just refused, and the refusal is the same
\* for a forged proof; another voter of the proposal has not voted.
C12_Witness ==
    \E p \in ValidIds, v \in Addresses, u \in Addresses :
        /\ hasVoted[p][v]
        /\ ~hasVoted[p][u]
        /\ lastResult.reason = "Already voted"
        /\ voteResult(v, p, ExternalInput(v, VoteOption_Yes), "forged", TRUE) =
               Reverted("Already voted")
        /\ voteResult(u, p, ExternalInput(u, VoteOption_Yes), "forged", TRUE) =
               Reverted("ProofVerificationFailed")

\* For a valid id hasUserVoted succeeds and returns whether the voter has an
\* accepted ballot on the proposal.
C13_HasUserVotedState ==
    \A p \in ValidIds, v \in Addresses :
        hasUserVotedResult(p, v) = Succeeded(NoEvent, <<cast[p][v] # <<>>>>)

\* Once hasUserVoted returns true it returns true after every step.
C13_HasUserVotedStep ==
    \A p \in ValidIds, v \in Addresses :
        hasUserVotedResult(p, v) = Succeeded(NoEvent, <<TRUE>>) =>
            hasUserVotedResult(p, v)' = Succeeded(NoEvent, <<TRUE>>)

\* C13: for every valid proposal p and identity v, hasUserVoted(p, v) does not
\* revert and returns true exactly when v has completed a successful vote on
\* p; once it returns true it returns true in every later state.
C13_HasUserVoted == [](C13_HasUserVotedState) /\ [][C13_HasUserVotedStep]_vars

\* C13 witness: on a public proposal one voter has voted, and was since
\* refused a second vote, and the other has not voted.
C13_Witness ==
    \E p \in ValidIds, v \in Addresses, u \in Addresses :
        /\ hasUserVotedResult(p, v) = Succeeded(NoEvent, <<TRUE>>)
        /\ hasUserVotedResult(p, u) = Succeeded(NoEvent, <<FALSE>>)
        /\ ProposalAt(p).isPublic
        /\ lastResult.reason = "Already voted"

\* C14: with the FHE capability available, getMyVote(p) called by a voter
\* whose vote on p was accepted returns the handle that vote imported, in
\* every later state; called by an identity with no accepted ballot on p it
\* reverts with "You haven't voted".
C14_MyVoteStable ==
    \A p \in ValidIds, v \in Addresses :
        getMyVoteResult(v, p, TRUE) =
            IF cast[p][v] # <<>>
            THEN Succeeded(NoEvent,
                           <<FHE_fromExternal(ExternalInput(v, cast[p][v][1]), "valid")>>)
            ELSE Reverted("You haven't voted")

\* C14 witness: two voters have voted No and Yes on a proposal that was then
\* published, and a repeated vote was just refused.
C14_Witness ==
    \E p \in ValidIds, v \in Addresses, u \in Addresses :
        /\ cast[p][v] = <<VoteOption_No>>
        /\ cast[p][u] = <<VoteOption_Yes>>
        /\ ProposalAt(p).isPublic
        /\ lastResult.reason = "Already voted"
        /\ getMyVoteResult(v, p, TRUE).status = "ok"

C16_IndependentState ==
    \A q \in ValidIds, v \in Addresses :
        ~hasVoted[q][v] =>
            voteResult(v, q, ExternalInput(v, VoteOption_Yes), "valid", TRUE).status = "ok"

\* A step that changes the record or the ballots of a proposal p changes those
\* of no other proposal q.
C16_IndependentStep ==
    \A p \in ValidIds, q \in ValidIds :
        (/\ p # q
         /\ \/ proposals'[p + 1] # ProposalAt(p)
            \/ hasVoted'[p] # hasVoted[p]
            \/ encryptedVotes'[p] # encryptedVotes[p]) =>
            /\ proposals'[q + 1] = ProposalAt(q)
            /\ hasVoted'[q] = hasVoted[q]
            /\ encryptedVotes'[q] = encryptedVotes[q]

\* C16: a vote or a publication on proposal p leaves the accumulators, the
\* isPublic flag, the public counts and the ballot records of every other
\* proposal as they were, and a voter who has voted on p can still vote once
\* on another proposal.
C16_IndependentProposals == [](C16_IndependentState) /\ [][C16_IndependentStep]_vars

\* C16 witness: a voter has voted on two proposals, one of them public and
\* the other not.
C16_Witness ==
    \E p \in ValidIds, q \in ValidIds, v \in Addresses :
        /\ p # q
        /\ hasVoted[p][v]
        /\ hasVoted[q][v]
        /\ ProposalAt(p).isPublic
        /\ ~ProposalAt(q).isPublic

\* C17: a step of getEncryptedVoteCount, getMyVote, getPublicVoteCounts,
\* hasUserVoted or proposalCount, reverting or not, leaves the proposal list
\* (accumulators, isPublic, public counts), hasVoted and the stored ballots
\* as they were.
C17_QueriesReadOnly ==
    [][(\/ \E p \in ProposalIds : getEncryptedVoteCount(p)
        \/ \E s \in Addresses, p \in ProposalIds, up \in BOOLEAN : getMyVote(s, p, up)
        \/ \E p \in ProposalIds : getPublicVoteCounts(p)
        \/ \E p \in ProposalIds, a \in Addresses : hasUserVoted(p, a)
        \/ proposalCount) =>
           UNCHANGED <<proposals, hasVoted, encryptedVotes>>]_vars

\* C17 witness: a getMyVote has succeeded (its permission is recorded), the
\* ballot it read is still stored, and a getMyVote was just refused.
C17_Witness ==
    /\ lastResult.reason = "You haven't voted"
    /\ \E p \in ValidIds, v \in Addresses :
           /\ MyVoteGrant(v, p) \in acl
           /\ hasVoted[p][v]

\* createProposal succeeds with ProposalCreated(proposals.length, description).
C18_CreateState ==
    \A s \in Addresses, d \in Descriptions :
        createProposalResult(s, d, TRUE) =
            Succeeded(<<ProposalCreated(Len(proposals), d)>>, <<>>)

\* A step that changes the length appends one fresh proposal and keeps the
\* others; no step shortens the list or changes a description.
C18_CreateStep ==
    LET n == Len(proposals)
    IN  /\ Len(proposals') >= n
        /\ \A i \in 1..n : proposals'[i].description = proposals[i].description
        /\ Len(proposals') # n =>
               /\ Len(proposals') = n + 1
               /\ proposals'[n + 1].yesCount.pt = 0
               /\ proposals'[n + 1].noCount.pt = 0
               /\ proposals'[n + 1].isPublic = FALSE
               /\ proposals'[n + 1].publicYesCount = 0
               /\ proposals'[n + 1].publicNoCount = 0
               /\ proposals'[n + 1].description \in Descriptions
               /\ createdLog' =
                      Append(createdLog,
                             [id |-> n, description |-> proposals'[n + 1].description])
               /\ \A v \in Addresses : hasVoted'[n][v] = FALSE
               /\ \A i \in 1..n : proposals'[i] = proposals[i]
               /\ UNCHANGED <<hasVoted, encryptedVotes>>

\* C18: createProposal(description) appends exactly one proposal whose
\* accumulators decrypt to 0, which is not public, whose public counts are 0
\* and on which nobody has voted, reports ProposalCreated(newId, description)
\* and leaves the existing proposals as they were; no proposal is ever
\* removed and no description ever changes.
C18_CreateProposal == [](C18_CreateState) /\ [][C18_CreateStep]_vars

\* C18 witness: a second proposal was just created, fresh, after the first
\* had received a ballot and been published.
C18_Witness ==
    /\ Len(proposals) = 2
    /\ \E d \in Descriptions : ProposalAt(1) = NewProposal(d)
    /\ \A v \in Addresses : ~hasVoted[1][v]
    /\ ProposalAt(0).isPublic
    /\ \E v \in Addresses : hasVoted[0][v]

\* C19: for every valid id getPublicVoteCounts succeeds, and while the
\* proposal has not been published it returns (0, 0, false).
C19_PublicCountsBeforePublish ==
    \A p \in ValidIds :
        /\ getPublicVoteCountsResult(p).status = "ok"
        /\ publishedOk[p] = 0 =>
               getPublicVoteCountsResult(p) = Succeeded(NoEvent, <<0, 0, FALSE>>)

\* C19 witness: a proposal that was never published holds a Yes and a No
\* ballot.
C19_Witness ==
    \E p \in ValidIds :
        /\ publishedOk[p] = 0
        /\ Cardinality(BallotsOf(p, VoteOption_Yes)) = 1
        /\ Cardinality(BallotsOf(p, VoteOption_No)) = 1

C21_AdminOnly ==
    \E admin \in Addresses :
        \A s \in Addresses \ {admin}, p \in ValidIds :
            makeVoteCountsPublicResult(s, p).status = "reverted"

\* getEncryptedVoteCount succeeds for every valid id, and returns the initial
\* encrypted zeros while no ballot has been accepted on the proposal.
C22_CountsReadableState ==
    \A p \in ValidIds :
        LET r == getEncryptedVoteCountResult(p)
        IN  /\ r.status = "ok"
            /\ (\A v \in Addresses : cast[p][v] = <<>>) =>
                   r.ret = <<FHE_asEuint8(0), FHE_asEuint8(0)>>

\* After a step getEncryptedVoteCount still succeeds; it returns the handles
\* the vote of this step wrote, or the same handles as before when the step
\* accepted no ballot on the proposal.
C22_CountsReadableStep ==
    \A p \in ValidIds :
        LET old == getEncryptedVoteCountResult(p).ret
        IN  /\ getEncryptedVoteCountResult(p)'.status = "ok"
            /\ IF cast'[p] = cast[p]
               THEN getEncryptedVoteCountResult(p)'.ret = old
               ELSE \E v \in Addresses :
                        /\ cast'[p][v] # cast[p][v]
                        /\ getEncryptedVoteCountResult(p)'.ret =
                               <<FHE_add(old[1], YesContribution(encryptedVotes'[p][v])),
                                 FHE_add(old[2], NoContribution(encryptedVotes'[p][v]))>>

\* C22: for every valid id getEncryptedVoteCount succeeds, before and after
\* publication, and returns the current encrypted accumulators: the handles
\* written by the most recent successful vote on the proposal, or the initial
\* encrypted zeros.
C22_CountsReadable == [](C22_CountsReadableState) /\ [][C22_CountsReadableStep]_vars

\* C22 witness: a public proposal holds an accepted Yes ballot and its
\* accumulators are returned, the first one encrypting 1.
C22_Witness ==
    \E p \in ValidIds :
        /\ ProposalAt(p).isPublic
        /\ BallotsOf(p, VoteOption_Yes) # {}
        /\ getEncryptedVoteCountResult(p).status = "ok"
        /\ getEncryptedVoteCountResult(p).ret[1].pt = 1
        /\ getEncryptedVoteCountResult(p).ret[1].src = "op"

\* C23: the only preconditions of vote are that the proposal exists and that
\* the caller has not cast a ballot on it: with a valid id, hasVoted false and
\* a verifying proof the vote succeeds, whatever others have voted, whoever
\* created the proposal and whatever the state of the other proposals.
C23_VotePreconditions ==
    \A p \in ValidIds, v \in Addresses :
        ~hasVoted[p][v] =>
            \A x \in Plaintexts :
                voteResult(v, p, ExternalInput(v, x), "valid", TRUE) =
                    Succeeded(<<Voted(p, v)>>, <<>>)

\* C23 witness: a voter has not voted on a proposal on which the other
\* address has, another proposal is public and holds a ballot, and the
\* voter's vote would succeed.
C23_Witness ==
    \E p \in ValidIds, q \in ValidIds, v \in Addresses, w \in Addresses :
        /\ p # q /\ v # w
        /\ ~hasVoted[p][v] /\ hasVoted[p][w]
        /\ ProposalAt(q).isPublic /\ hasVoted[q][v]
        /\ voteResult(v, p, ExternalInput(v, VoteOption_No), "valid", TRUE).status = "ok"

\* Below wrap-around the two counters add up to the number of accepted Yes
\* and No ballots, which is at most the number of identities that have voted.
C30_CountersState ==
    \A p \in ValidIds :
        LET yes == Cardinality(BallotsOf(p, VoteOption_Yes))
            no == Cardinality(BallotsOf(p, VoteOption_No))
        IN  /\ ProposalAt(p).yesCount.pt + ProposalAt(p).noCount.pt = yes + no
            /\ yes + no <= Cardinality({v \in Addresses : hasVoted[p][v]})

\* A step raises at most one counter of a proposal, by exactly 1, and only a
\* step that accepts a ballot on the proposal changes a counter at all.
C30_CountersStep ==
    \A p \in ValidIds :
        LET dYes == proposals'[p + 1].yesCount.pt - ProposalAt(p).yesCount.pt
            dNo == proposals'[p + 1].noCount.pt - ProposalAt(p).noCount.pt
        IN  /\ dYes \in {0, 1} /\ dNo \in {0, 1} /\ dYes + dNo <= 1
            /\ <<proposals'[p + 1].yesCount, proposals'[p + 1].noCount>> #
                   <<ProposalAt(p).yesCount, ProposalAt(p).noCount>> =>
                   \E v \in Addresses : Len(cast'[p][v]) = Len(cast[p][v]) + 1

\* C30: each successful vote increases at most one of the two counters, by
\* exactly 1; below wrap-around yesCount + noCount is the number of accepted
\* ballots with plaintext 0 or 1 and at most the number of identities with
\* hasVoted true; no operation other than vote changes either counter.
C30_Counters == [](C30_CountersState) /\ [][C30_CountersStep]_vars

\* C30 witness: a public proposal holds an accepted Yes ballot and an accepted
\* ballot that is neither Yes nor No: two identities have voted, the counters
\* add up to 1.
C30_Witness ==
    \E p \in ValidIds :
        /\ ProposalAt(p).isPublic
        /\ Cardinality(BallotsOf(p, VoteOption_Yes)) = 1
        /\ Cardinality(BallotsOf(p, 2)) = 1
        /\ ProposalAt(p).yesCount.pt + ProposalAt(p).noCount.pt = 1
        /\ Cardinality({v \in Addresses : hasVoted[p][v]}) = 2

C24_SepoliaOnly ==
    web3.provider = "fhe" /\ web3.lastTx # NoTransaction =>
        web3.lastTx.chainId = SEPOLIA_CHAIN_ID

\* C25: wallet connection on a wrong network is rejected: after connectWallet
\* or the connection restore at start-up has run with the wallet on a chain
\* other than Sepolia, isConnected is false and there is no contract instance.
C25_WrongNetworkRejected ==
    /\ web3.provider = "fhe"
    /\ web3.lastOp \in {"connectWallet", "checkConnection"}
    /\ web3.walletChain # SEPOLIA_CHAIN_ID
    => ~web3.isConnected /\ ~web3.contract

\* C26: the frontend checks the vote status before allowing a vote: no vote
\* transaction is submitted for a voter and proposal for which the contract
\* reports hasUserVoted = true.
C26_ChecksBeforeVote ==
    web3.lastTx.op = "vote" => ~web3.lastTx.alreadyVoted

\* C27: the boolean-to-numeric ballot conversion is the same everywhere and
\* matches VoteOption: every vote(proposalId, voteValue) of a provider submits
\* a ballot with plaintext 0 (Yes) for true and 1 (No) for false.
C27_SameConversion ==
    web3.lastTx.op = "vote" =>
        web3.lastTx.plaintext =
            IF web3.lastTx.voteValue THEN VoteOption_Yes ELSE VoteOption_No

\* The deployment scripts.
DeployScripts == {"deploy-and-update.sh", "deploy.sh"}

\* C28: the deployment scripts create a backup and rollback reverts to the
\* previous contract: rollback.sh run after a deployment that replaced the
\* frontend address sets .env and the contracts.ts fallback back to the
\* addresses configured before that deployment; run again it changes nothing;
\* without a backup file it fails and changes nothing.
C28_BackupAndRollback ==
    [][site'.lastRun = "rollback.sh" =>
          /\ site.lastRun \in DeployScripts /\ site.replaced =>
                 Config(site'.env, site'.fallback) = site.before
          /\ site.lastRun = "rollback.sh" =>
                 Config(site'.env, site'.fallback) = Config(site.env, site.fallback)
          /\ site.backup = NoFile =>
                 /\ site'.exit = 1
                 /\ Config(site'.env, site'.fallback) = Config(site.env, site.fallback)
                 /\ site'.backup = NoFile]_vars

\* The handles of the two counters of every proposal.
TallyHandles == {ProposalAt(p).yesCount : p \in ValidIds} \cup {ProposalAt(p).noCount : p \in ValidIds}

C31_NoTallyPermissionState ==
    /\ \A g \in acl : g[1] \notin TallyHandles
    /\ \A g \in acl : \E p \in ValidIds :
           /\ hasVoted[p][g[2]]
           /\ g = <<encryptedVotes[p][g[2]], g[2]>>

C31_NoTallyPermissionStep ==
    \/ acl' = acl
    \/ \E v \in Addresses, p \in ValidIds :
           /\ hasVoted[p][v]
           /\ lastResult'.status = "ok"
           /\ acl' = acl \cup {<<encryptedVotes[p][v], v>>}

\* C31: no identity ever holds a decryption permission on the yesCount or the
\* noCount of a proposal, before or after makeVoteCountsPublic; every
\* permission in the contract is one voter's permission on the ballot recorded
\* for that voter, and a step changes the permissions only by adding such a
\* permission.
C31_NoTallyPermission == [](C31_NoTallyPermissionState) /\ [][C31_NoTallyPermissionStep]_vars

\* C31 witness: a proposal with ballots for Yes and for No is public, both
\* counters differ from the freshly created ones, and a voter holds the
\* permission on their own ballot.
C31_Witness ==
    \E p \in ValidIds, u \in Addresses, v \in Addresses :
        /\ ProposalAt(p).isPublic
        /\ publishedOk[p] > 0
        /\ u \in BallotsOf(p, VoteOption_Yes)
        /\ v \in BallotsOf(p, VoteOption_No)
        /\ <<encryptedVotes[p][v], v>> \in acl

\* Two configs that configChanged does not tell apart.
SameConfig(a, b) ==
    /\ a.account = b.account
    /\ a.chainId = b.chainId
    /\ a.rpcUrl = b.rpcUrl

\* C32: the instance getInstance(c) has returned to a call, under every
\* interleaving of the calls in progress, is the instance of a
\* createZamaInstance call that was started for a config with the account,
\* chainId and rpcUrl of c.
C32_InstanceOfConfig ==
    \A c \in FheCalls :
        fhe.calls[c].instance # NoInstance =>
            SameConfig(fhe.created[fhe.calls[c].instance].config, fhe.calls[c].config)

\* initPromise is set and has rejected.
InitFailed ==
    /\ fhe.initPromise # NoPromise
    /\ fhe.created[fhe.initPromise].state = "rejected"

\* The step begins the call c.
FheCallBegins(c) ==
    /\ fhe.calls[c].pc \in {"idle", "done"}
    /\ fhe'.calls[c].pc # "idle"
    /\ fhe'.calls[c] # fhe.calls[c]

\* A rejection of the pending initPromise leaves initPromise set; while
\* initPromise is a rejected promise, a call with the account, chainId and
\* rpcUrl of currentConfig starts no creation, leaves initPromise as it is
\* and awaits it.
C33_StickyFailureStep ==
    /\ \A k \in 1..Len(fhe.created) :
           (k = fhe.initPromise /\ fhe.created[k].state = "pending"
                /\ fhe'.created[k].state = "rejected") =>
               fhe'.initPromise = k
    /\ \A c \in FheCalls :
           (InitFailed /\ FheCallBegins(c) /\ ~configChanged(fhe'.calls[c].config)) =>
               /\ fhe'.created = fhe.created
               /\ fhe'.initPromise = fhe.initPromise
               /\ fhe'.calls[c].pc = "awaitInitPromise"
               /\ fhe'.calls[c].promise = fhe.initPromise

\* A call that awaited a rejected promise has rejected.
C33_StickyFailureState ==
    \A c \in FheCalls :
        (/\ fhe.calls[c].pc = "done"
         /\ fhe.calls[c].promise # NoPromise
         /\ fhe.created[fhe.calls[c].promise].state = "rejected") =>
            fhe.calls[c].status = "rejected"

\* C33: when createZamaInstance rejects, initPromise stays set, and as long
\* as neither reset() is called nor the config changes, every getInstance
\* with the same account, chainId and rpcUrl rejects and starts no creation.
C33_StickyFailure == [](C33_StickyFailureState) /\ [][C33_StickyFailureStep]_vars

\* C34: every entry of decryptCache holds a value of a userDecrypt call that
\* was made under the current config, and the value decrypt(h, c) has
\* returned was decrypted under a config with the account, chainId and rpcUrl
\* of c, also when the config changes while a decrypt awaits its result.
C34_CacheOfCurrentConfig ==
    /\ \A h \in FheHandles :
           fhe.decryptCache[h] # NoEntry =>
               SameConfig(fhe.decryptCache[h].value[1].config, fhe.currentConfig)
    /\ \A c \in FheCalls :
           (fhe.calls[c].op = "decrypt" /\ fhe.calls[c].pc = "done"
                /\ fhe.calls[c].status = "ok") =>
               SameConfig(fhe.calls[c].value[1].config, fhe.calls[c].config)

C35_LoadsOnceState ==
    /\ sdk.promises <= 1
    /\ sdk.scripts <= 1
    /\ sdk.imports <= 1
    /\ sdk.sdkLoaded => sdk.window
    /\ \A c \in SdkCalls : sdk.callers[c] = "waiting" => sdk.sdkLoadPromise # "null"

\* The step is a call of loadZamaSDKFromCDN by c.
SdkCallBegins(c) == sdk.callers[c] # "waiting" /\ sdk'.callers[c] # sdk.callers[c]

C35_LoadsOnceStep ==
    /\ sdk.sdkLoaded => sdk'.sdkLoaded
    /\ sdk.sdkLoadPromise # "null" =>
           /\ sdk'.sdkLoadPromise # "null"
           /\ sdk'.promises = sdk.promises
           /\ sdk'.scripts = sdk.scripts
    /\ \A c \in SdkCalls :
           (sdk.sdkLoadPromise = "rejected" /\ SdkCallBegins(c)) =>
               /\ sdk'.sdkLoadPromise = "rejected"
               /\ sdk'.promises = sdk.promises
               /\ sdk'.scripts = sdk.scripts
               /\ sdk'.imports = sdk.imports
               /\ sdk'.script = sdk.script
               /\ sdk'.import = sdk.import

C36_EveryCallSettles ==
    \A c \in SdkCalls :
        (sdk.callers[c] = "waiting") ~> (sdk.callers[c] \in {"resolved", "rejected"})

\* C36 witness: the script has fired neither onload nor onerror, no import
\* was tried, the timeout has fired, and a caller has been rejected.
C36_Witness ==
    /\ sdk.script = "loading"
    /\ sdk.import = "none"
    /\ sdk.loadTimeout = "fired"
    /\ \E c \in SdkCalls : sdk.callers[c] = "rejected"

====
